---------------------------- MODULE Spec2Model ----------------------------
(***************************************************************************)
(* A model of the notion_processing document pipeline: the four tables of  *)
(* database.py, the persistence transactions of extractor.py,              *)
(* classifier.py and summarizer.py, and the stage drivers run_extraction,  *)
(* run_classification and run_weekly_summary.                              *)
(*                                                                         *)
(* Every session is created by sessionmaker(autocommit=False,              *)
(* autoflush=False): a query inside a transaction reads the committed rows *)
(* only, objects handed to session.add() stay pending until                *)
(* session.commit(), and attribute writes on a loaded row are flushed at   *)
(* commit too.  rollback() therefore discards the whole batch.             *)
(***************************************************************************)
EXTENDS Integers, Sequences, FiniteSets, TLC

VARIABLES
    notion_documents,          \* table notion_documents, keyed by its primary key id
    processing_records,        \* table processing_records, keyed by its unique document_id
    document_classifications,  \* table document_classifications, rows in autoincrement id order
    weekly_summaries,          \* table weekly_summaries, rows in autoincrement id order
    args,                      \* arguments of the call under study (pure-function specifications)
    result                     \* outcome of the last call: what it returned or that it raised

vars == <<notion_documents, processing_records, document_classifications,
          weekly_summaries, args, result>>

store == <<notion_documents, processing_records, document_classifications,
           weekly_summaries>>

-----------------------------------------------------------------------------
(* Bounds of the model *)

MaxDocs == 2            \* number of distinct source page ids
MaxBatch == 2           \* longest batch handed directly to a persist or batch call
MaxStatDocs == 3        \* longest document list handed to calculate_weekly_statistics

DocIds == 1..MaxDocs

\* Two generations of a source page: every source-side attribute of
\* generation v carries the value v, so a stale column shows.
SourceVersions == {1, 2}

None == "None"
utcnow == "utcnow"      \* the value of datetime.utcnow(); no claim compares two clock readings

-----------------------------------------------------------------------------
(* models.py: the enumerations *)

PROJECT == "project"
KNOWLEDGE == "knowledge"
DocumentType == {PROJECT, KNOWLEDGE}

ProjectSubCategories == {"feature_request", "bug_report", "planning", "research"}
KnowledgeSubCategories ==
    {"tutorial", "reference", "best_practice", "case_study", "documentation"}
SubCategory == ProjectSubCategories \cup KnowledgeSubCategories

PENDING == "pending"
EXTRACTED == "extracted"
CLASSIFIED == "classified"
FAILED == "failed"
ProcessingStatus == {PENDING, EXTRACTED, CLASSIFIED, FAILED}

\* The partition of the sub-categories by primary category that the
\* comments of SubCategory and the classification prompt state.
allowed_subcategories(document_type) ==
    IF document_type = PROJECT THEN ProjectSubCategories
    ELSE IF document_type = KNOWLEDGE THEN KnowledgeSubCategories
    ELSE {}

-----------------------------------------------------------------------------
(* Helpers on sequences *)

Range(s) == {s[i] : i \in DOMAIN s}

SeqsUpTo(S, n) == UNION {[1..k -> S] : k \in 0..n}

NoDuplicates(s) == \A i, j \in DOMAIN s : i # j => s[i] # s[j]

\* json.dumps: the stored column is the text of the value, not the value
json_dumps(v) == <<"json", v>>

-----------------------------------------------------------------------------
(* Time.  An instant is a number of clock ticks since a Monday 00:00:00;   *)
(* datetime keeps fractions of a second, here TicksPerSecond of them.      *)

TicksPerSecond == 2

Day == 24 * 60 * 60 * TicksPerSecond
Week == 7 * Day

\* The creation time the source reports for a page: Monday 00:00:00 of
\* week 0, a Tuesday of week 1, the last half second of week 0.
created_time_of(id) ==
    CASE id = 1 -> 0
      [] id = 2 -> Week + Day
      [] OTHER -> Week - 1

database_id == "NOTION_DATABASE_ID"

-----------------------------------------------------------------------------
(* extractor.py: extraction *)

\* A page of the source listing: its id, the generation of its attributes
\* and whether its blocks can be read (extract_page_content raising makes
\* the page a per-item failure).
SourceItems == [id : DocIds, version : SourceVersions, readable : BOOLEAN]

\* The NotionDocument built from a source page
NotionDocument(page) ==
    [id |-> page.id,
     title |-> page.version,
     content |-> page.version,
     url |-> page.version,
     created_time |-> created_time_of(page.id),
     last_edited_time |-> page.version,
     parent_database_id |-> database_id,
     properties |-> page.version]

Min(a, b) == IF a < b THEN a ELSE b

\* Optional[int]: limit = None is written NoLimit
NoLimit == 0 - 1

\* "if limit:" is false for None and for 0
Truthy(limit) == limit # NoLimit /\ limit # 0

page_size(limit) == IF Truthy(limit) THEN Min(limit, 100) ELSE 100

\* The q-th answer of client.databases.query: the next page_size pages
\* of the listing, and has_more while pages remain
query_results(items, limit, q) ==
    SubSeq(items, (q - 1) * page_size(limit) + 1,
           Min(q * page_size(limit), Len(items)))

query_has_more(items, limit, q) == q * page_size(limit) < Len(items)

\* The loop over the pages of one answer.  The first answer is taken
\* whole; in the later ones the loop breaks once limit documents exist.
RECURSIVE extract_pages(_, _, _, _)
extract_pages(pages, documents, limit, first) ==
    IF pages = <<>> THEN documents
    ELSE IF ~first /\ Truthy(limit) /\ Len(documents) >= limit THEN documents
    ELSE extract_pages(Tail(pages),
                       IF Head(pages).readable
                       THEN Append(documents, NotionDocument(Head(pages)))
                       ELSE documents,
                       limit, first)

\* extract_documents_from_database from its q-th query on.  fail_query is
\* the number of the query that raises APIResponseError (0: none does).
RECURSIVE extract_from(_, _, _, _, _)
extract_from(items, limit, fail_query, q, documents) ==
    IF fail_query = q THEN [raised |-> TRUE, documents |-> <<>>]
    ELSE LET found == extract_pages(query_results(items, limit, q),
                                    documents, limit, q = 1)
         IN  IF query_has_more(items, limit, q)
                /\ (limit = NoLimit \/ Len(found) < limit)
             THEN extract_from(items, limit, fail_query, q + 1, found)
             ELSE [raised |-> FALSE, documents |-> found]

\* An extraction that goes on as if no listing query had raised
extract_documents_ignoring_failure(items, limit, fail_query) ==
    extract_from(items, limit, 0, 1, <<>>)

extract_documents_from_database(items, limit, fail_query) ==
    extract_from(items, limit, fail_query, 1, <<>>)

-----------------------------------------------------------------------------
(* extractor.py: save_documents_to_db *)

NotionDocumentDB(document) ==
    [id |-> document.id,
     title |-> document.title,
     content |-> document.content,
     url |-> document.url,
     created_time |-> document.created_time,
     last_edited_time |-> document.last_edited_time,
     parent_database_id |-> document.parent_database_id,
     properties |-> json_dumps(document.properties)]

\* The branch "if existing_doc:" assigns these four columns (and updated_at)
update_existing_doc(existing_doc, document) ==
    [existing_doc EXCEPT !.title = document.title,
                         !.content = document.content,
                         !.last_edited_time = document.last_edited_time,
                         !.properties = json_dumps(document.properties)]

\* A new record that is given no extraction timestamp
ExtractedRecord_untimed(document_id) ==
    [document_id |-> document_id,
     status |-> EXTRACTED,
     extracted_at |-> None,
     classified_at |-> None,
     error_message |-> None]

\* The ProcessingRecordDB the branch "else:" of save_documents_to_db adds
ExtractedRecord(document_id) ==
    [document_id |-> document_id,
     status |-> EXTRACTED,
     extracted_at |-> utcnow,
     classified_at |-> None,
     error_message |-> None]

\* The branch "if processing_record:" of save_documents_to_db
mark_extracted(processing_record) ==
    [processing_record EXCEPT !.status = EXTRACTED, !.extracted_at = utcnow]

\* The session of save_documents_to_db after the loop over documents:
\* docs and recs are the loaded rows with their attribute writes, new_docs
\* and new_recs the objects given to session.add().  The two queries read
\* the committed tables db_docs and db_recs: nothing is flushed before commit.
RECURSIVE documents_session(_, _, _, _)
documents_session(db_docs, db_recs, documents, session) ==
    IF documents = <<>> THEN session
    ELSE LET document == Head(documents)
             s1 == IF document.id \in DOMAIN db_docs
                   THEN [session EXCEPT !.docs[document.id] =
                            update_existing_doc(@, document)]
                   ELSE [session EXCEPT !.new_docs =
                            Append(@, NotionDocumentDB(document))]
             s2 == IF document.id \in DOMAIN db_recs
                   THEN [s1 EXCEPT !.recs[document.id] = mark_extracted(@)]
                   ELSE [s1 EXCEPT !.new_recs =
                            Append(@, ExtractedRecord(document.id))]
         IN  documents_session(db_docs, db_recs, Tail(documents), s2)

\* The rows of a table keyed by key after the flush of the inserts
Inserted(table, new_rows, key) ==
    LET ids == {new_rows[i][key] : i \in DOMAIN new_rows}
    IN  [k \in DOMAIN table \cup ids |->
            IF k \in DOMAIN table THEN table[k]
            ELSE new_rows[CHOOSE i \in DOMAIN new_rows : new_rows[i][key] = k]]

\* The flush at commit raises IntegrityError when two inserted rows carry
\* the same primary key (notion_documents.id) or the same unique
\* document_id (processing_records.document_id)
KeyConflict(new_rows, key) ==
    ~NoDuplicates([i \in DOMAIN new_rows |-> new_rows[i][key]])

\* What a bug that commits per document instead of per batch would leave
save_documents_partial(db_docs, db_recs, documents, fail_at) ==
    LET done == IF fail_at = 0 THEN documents
                ELSE SubSeq(documents, 1, Min(fail_at - 1, Len(documents)))
        session == documents_session(db_docs, db_recs, done,
                       [docs |-> db_docs, new_docs |-> <<>>,
                        recs |-> db_recs, new_recs |-> <<>>])
        conflict == KeyConflict(session.new_docs, "id")
                        \/ KeyConflict(session.new_recs, "document_id")
    IN  IF conflict
        THEN [raised |-> TRUE, notion_documents |-> db_docs,
              processing_records |-> db_recs]
        ELSE [raised |-> fail_at # 0,
              notion_documents |-> Inserted(session.docs, session.new_docs, "id"),
              processing_records |->
                  Inserted(session.recs, session.new_recs, "document_id")]

\* save_documents_to_db.  fail_at = k in 1..Len(documents): the store round
\* trip for the k-th document raises; Len(documents) + 1: the commit
\* raises; 0: no such failure.  Every exception is answered by
\* session.rollback() and re-raised.
save_documents_to_db(db_docs, db_recs, documents, fail_at) ==
    LET session == documents_session(db_docs, db_recs, documents,
                       [docs |-> db_docs, new_docs |-> <<>>,
                        recs |-> db_recs, new_recs |-> <<>>])
        conflict == KeyConflict(session.new_docs, "id")
                        \/ KeyConflict(session.new_recs, "document_id")
    IN  IF fail_at # 0 \/ conflict
        THEN [raised |-> TRUE, notion_documents |-> db_docs,
              processing_records |-> db_recs]
        ELSE [raised |-> FALSE,
              notion_documents |-> Inserted(session.docs, session.new_docs, "id"),
              processing_records |->
                  Inserted(session.recs, session.new_recs, "document_id")]

-----------------------------------------------------------------------------
(* classifier.py: classify_document *)

\* What client.chat.completions.create gives for one document: the call
\* raises (call = "error") or returns a text.  The text is a body between
\* an optional opening fence ("fence_json" or a bare "fence") and an
\* optional closing fence; the body is
\* the text of a JSON object (json = TRUE, its keys and values in data)
\* or something json.loads rejects.  confidence_score is a number in
\* hundredths (kind "number"), a string float() accepts (kind
\* "numeric_string") or one it rejects (kind "text").
ApiError == [call |-> "error"]

Reply(open, body, close) ==
    [call |-> "ok", open |-> open, body |-> body, close |-> close]

NotJson == [json |-> FALSE]

Number(hundredths) == [kind |-> "number", value |-> hundredths]

Answer(document_type, sub_category, confidence_score) ==
    Reply("", [json |-> TRUE,
               data |-> [document_type |-> document_type,
                         sub_category |-> sub_category,
                         confidence_score |-> confidence_score,
                         classification_reason |-> "reason"]], "")

\* The text handed to json.loads: a json code fence is cut from the start
\* (startswith, [7:]) and a code fence from the end (endswith, [:-3]); a
\* bare opening fence stays and json.loads rejects it.
json_loads_ok(response) ==
    /\ response.open \in {"", "fence_json"}
    /\ response.close \in {"", "fence"}
    /\ response.body.json

RequiredKeys ==
    {"document_type", "sub_category", "confidence_score", "classification_reason"}

\* float(x) succeeds
float_ok(x) == x.kind \in {"number", "numeric_string"}

\* DocumentClassification(...): Field(..., ge=0.0, le=1.0)
confidence_in_range(x) == 0 <= x.value /\ x.value <= 100

\* classification_valid without the range of DocumentClassification.confidence_score
classification_valid_unranged(data) ==
    /\ RequiredKeys \subseteq DOMAIN data
    /\ data.document_type \in DocumentType
    /\ data.sub_category \in SubCategory
    /\ float_ok(data.confidence_score)

\* The checks between json.loads and "return classification": each key
\* read, the two enumerations looked up by value, float(), the model built
classification_valid(data) ==
    /\ RequiredKeys \subseteq DOMAIN data
    /\ data.document_type \in DocumentType
    /\ data.sub_category \in SubCategory
    /\ float_ok(data.confidence_score)
    /\ confidence_in_range(data.confidence_score)

DocumentClassification(document_id, data) ==
    [document_id |-> document_id,
     document_type |-> data.document_type,
     sub_category |-> data.sub_category,
     confidence_score |-> data.confidence_score.value,
     classification_reason |-> data.classification_reason,
     classified_at |-> utcnow]

\* classify_document: every failure leaves through "raise"
classify_document(document, response) ==
    IF response.call = "ok" /\ json_loads_ok(response)
                            /\ classification_valid(response.body.data)
    THEN [raised |-> FALSE,
          classification |->
              DocumentClassification(document.id, response.body.data)]
    ELSE [raised |-> TRUE, classification |-> None]

\* What a batch loop without its try/except would do: the first document
\* whose classification raises ends the call
RECURSIVE classify_batch_aborting(_, _)
classify_batch_aborting(documents, responses) ==
    IF documents = <<>> THEN [raised |-> FALSE, classifications |-> <<>>]
    ELSE LET r == classify_document(Head(documents), Head(responses))
             rest == classify_batch_aborting(Tail(documents), Tail(responses))
         IN  IF r.raised THEN [raised |-> TRUE, classifications |-> <<>>]
             ELSE [rest EXCEPT !.classifications = <<r.classification>> \o @]

\* classify_documents_batch: responses[i] is the oracle's answer to the
\* i-th call.  "except Exception: continue" skips a document that failed;
\* no statement of the loop lies outside the try.
RECURSIVE classify_documents_batch(_, _)
classify_documents_batch(documents, responses) ==
    IF documents = <<>> THEN [raised |-> FALSE, classifications |-> <<>>]
    ELSE LET r == classify_document(Head(documents), Head(responses))
             rest == classify_documents_batch(Tail(documents), Tail(responses))
         IN  IF r.raised THEN rest
             ELSE [rest EXCEPT !.classifications = <<r.classification>> \o @]

-----------------------------------------------------------------------------
(* classifier.py: save_classifications_to_db *)

DocumentClassificationDB(classification) ==
    [document_id |-> classification.document_id,
     document_type |-> classification.document_type,
     sub_category |-> classification.sub_category,
     confidence_score |-> classification.confidence_score,
     classification_reason |-> classification.classification_reason,
     classified_at |-> classification.classified_at]

\* The branch "if existing_classification:"
update_existing_classification(existing_classification, classification) ==
    [existing_classification EXCEPT
        !.document_type = classification.document_type,
        !.sub_category = classification.sub_category,
        !.confidence_score = classification.confidence_score,
        !.classification_reason = classification.classification_reason,
        !.classified_at = classification.classified_at]

ClassifiedRecord(document_id) ==
    [document_id |-> document_id,
     status |-> CLASSIFIED,
     extracted_at |-> None,
     classified_at |-> utcnow,
     error_message |-> None]

\* A branch that sets the timestamp and leaves the status as it is
mark_classified_keeping_status(processing_record) ==
    [processing_record EXCEPT !.classified_at = utcnow]

\* The branch "if processing_record:" of save_classifications_to_db
mark_classified(processing_record) ==
    [processing_record EXCEPT !.status = CLASSIFIED, !.classified_at = utcnow]

\* The rows of document_classifications with a given document_id
rows_of(db_cls, document_id) ==
    {i \in DOMAIN db_cls : db_cls[i].document_id = document_id}

\* query(...).filter(document_id == ...).first() has no ORDER BY: when
\* several rows match, the database decides which one it returns; pick
\* names the decision (the pick-th match in id order, cyclically).  0
\* stands for "no row".
first_row(db_cls, document_id, pick) ==
    LET rows == rows_of(db_cls, document_id)
        n == ((pick - 1) % Cardinality(rows)) + 1
    IN  IF rows = {} THEN 0
        ELSE CHOOSE i \in rows : Cardinality({j \in rows : j < i}) = n - 1

\* The session of save_classifications_to_db after its loop: cls and recs
\* are the loaded rows with their attribute writes, new_cls and new_recs
\* the objects given to session.add().  Both queries read the committed
\* tables.
RECURSIVE classifications_session(_, _, _, _, _)
classifications_session(db_cls, db_recs, classifications, pick, session) ==
    IF classifications = <<>> THEN session
    ELSE LET classification == Head(classifications)
             existing == first_row(db_cls, classification.document_id, pick)
             s1 == IF existing # 0
                   THEN [session EXCEPT !.cls[existing] =
                            update_existing_classification(@, classification)]
                   ELSE [session EXCEPT !.new_cls =
                            Append(@, DocumentClassificationDB(classification))]
             s2 == IF classification.document_id \in DOMAIN db_recs
                   THEN [s1 EXCEPT !.recs[classification.document_id] =
                            mark_classified(@)]
                   ELSE [s1 EXCEPT !.new_recs =
                            Append(@, ClassifiedRecord(classification.document_id))]
         IN  classifications_session(db_cls, db_recs, Tail(classifications),
                                     pick, s2)

\* save_classifications_to_db; fail_at as in save_documents_to_db.
\* document_classifications has an autoincrement key and no unique
\* column, so only two inserted processing_records can collide.
save_classifications_to_db(db_cls, db_recs, classifications, fail_at, pick) ==
    LET session == classifications_session(db_cls, db_recs, classifications, pick,
                       [cls |-> db_cls, new_cls |-> <<>>,
                        recs |-> db_recs, new_recs |-> <<>>])
        conflict == KeyConflict(session.new_recs, "document_id")
    IN  IF fail_at # 0 \/ conflict
        THEN [raised |-> TRUE, document_classifications |-> db_cls,
              processing_records |-> db_recs]
        ELSE [raised |-> FALSE,
              document_classifications |-> session.cls \o session.new_cls,
              processing_records |->
                  Inserted(session.recs, session.new_recs, "document_id")]

\* A selection that takes every record not yet CLASSIFIED
get_unclassified_not_classified(db_docs, db_recs) ==
    {id \in DOMAIN db_docs :
        id \in DOMAIN db_recs /\ db_recs[id].status # CLASSIFIED}

\* A selection whose join has no filter on the status
get_unclassified_ignoring_status(db_docs, db_recs) ==
    {id \in DOMAIN db_docs : id \in DOMAIN db_recs}

\* get_unclassified_documents: the documents joined to a processing record
\* in status EXTRACTED.  The query has no ORDER BY; the ids are given here
\* as a set and the caller fixes the order the database happened to use.
get_unclassified_documents(db_docs, db_recs) ==
    {id \in DOMAIN db_docs :
        id \in DOMAIN db_recs /\ db_recs[id].status = EXTRACTED}

\* The orders in which .all() may list a set of rows
Orders(S) == {s \in [1..Cardinality(S) -> S] : Range(s) = S}

-----------------------------------------------------------------------------
(* The outcome of a call, as its caller sees it *)

\* op: the entry point; raised: it raised; phase: the step that raised;
\* pending: the batch elements the session had handled when it raised;
\* selected: the ids get_unclassified_documents gave; returned: the ids of
\* the classifications returned.
Outcome(op, raised, phase, pending, selected, returned) ==
    [op |-> op, raised |-> raised, phase |-> phase, pending |-> pending,
     selected |-> selected, returned |-> returned]

NoCall == Outcome("none", FALSE, "none", 0, {}, {})

Ids(rows, key) == {rows[i][key] : i \in DOMAIN rows}

\* The points at which a persist of n elements can fail (0: nowhere)
FailPoints(n) == 0..(n + 1)

Pending(n, fail_at) == IF fail_at = 0 THEN 0 ELSE Min(fail_at - 1, n)

\* The first() decisions that differ on this table: as many as the rows
\* of the document that has the most
Picks(db_cls) ==
    {1} \cup {Cardinality(rows_of(db_cls, db_cls[i].document_id)) :
                 i \in DOMAIN db_cls}
             \cup {k \in 1..Len(db_cls) :
                     \E i \in DOMAIN db_cls :
                        k <= Cardinality(rows_of(db_cls, db_cls[i].document_id))}

-----------------------------------------------------------------------------
(* The stage runs: specification Spec *)

\* The source listings of the stage runs: pages of one generation, every
\* page at most once, in id order
Listings ==
    {s \in SeqsUpTo({p \in SourceItems : p.version = 1}, MaxDocs) :
        \A i, j \in DOMAIN s : i < j => s[i].id < s[j].id}

Ascending(s) == \A i, j \in DOMAIN s : i < j => s[i] < s[j]

\* The answers of the categorization oracle in the stage runs: a valid
\* one, one whose sub-category belongs to the other primary category, and
\* one that is no JSON
StageResponses ==
    {Answer(PROJECT, "feature_request", Number(90)),
     Answer(PROJECT, "tutorial", Number(80)),
     Reply("", NotJson, "")}

Init ==
    /\ notion_documents = <<>>
    /\ processing_records = <<>>
    /\ document_classifications = <<>>
    /\ weekly_summaries = <<>>
    /\ args = None
    /\ result = NoCall

\* The calls of run_extraction in the stage runs: a listing of readable
\* pages, or the full listing with one unreadable page, without a limit;
\* the full listing with limit 0 or 1, or with the persist failing at one
\* of its points; a listing query that raises at once.
ExtractionRuns ==
    LET Run(items, limit, fail_query, fail_at) ==
            [items |-> items, limit |-> limit, fail_query |-> fail_query,
             fail_at |-> fail_at]
        Readable == {s \in Listings : \A i \in DOMAIN s : s[i].readable}
        Full == {s \in Readable : Len(s) = MaxDocs}
        OneUnreadable ==
            {s \in Listings : /\ Len(s) = MaxDocs
                              /\ Cardinality({i \in DOMAIN s : ~s[i].readable}) = 1}
    IN  {Run(items, NoLimit, 0, 0) : items \in Readable \cup OneUnreadable}
            \cup {Run(items, limit, 0, 0) : items \in Full, limit \in {0, 1}}
            \cup {Run(items, NoLimit, 0, k) : items \in Full, k \in 1..(MaxDocs + 1)}
            \cup {Run(<<>>, NoLimit, 1, 0)}

\* NotionExtractor.run_extraction on one call: extract, then persist
extraction(run) ==
    LET e == extract_documents_from_database(run.items, run.limit,
                                             run.fail_query)
        s == save_documents_to_db(notion_documents, processing_records,
                                  e.documents, run.fail_at)
    IN  IF e.raised
        THEN /\ result' = Outcome("run_extraction", TRUE, "extract", 0, {}, {})
             /\ UNCHANGED store
        ELSE /\ notion_documents' = s.notion_documents
             /\ processing_records' = s.processing_records
             /\ result' =
                   IF s.raised
                   THEN Outcome("run_extraction", TRUE, "persist",
                                Pending(Len(e.documents), run.fail_at), {}, {})
                   ELSE Outcome("run_extraction", FALSE, "none", 0, {}, {})
             /\ UNCHANGED <<document_classifications, weekly_summaries>>

run_extraction ==
    \E run \in ExtractionRuns :
        /\ extraction(run)
        /\ UNCHANGED args

\* DocumentClassifier.run_classification: select, classify, persist
run_classification ==
    LET selected == get_unclassified_documents(notion_documents, processing_records)
    IN  IF selected = {}
        THEN /\ result' = Outcome("run_classification", FALSE, "none", 0, {}, {})
             /\ UNCHANGED <<store, args>>
        ELSE \E order \in Orders(selected) :
             \E responses \in [DOMAIN order -> StageResponses] :
                LET documents == [i \in DOMAIN order |-> notion_documents[order[i]]]
                    batch == classify_documents_batch(documents, responses)
                    classifications == batch.classifications
                IN  IF batch.raised
                    THEN /\ result' = Outcome("run_classification", TRUE, "classify",
                                              0, selected, {})
                         /\ UNCHANGED <<store, args>>
                    ELSE \E fail_at \in FailPoints(Len(classifications)),
                            pick \in Picks(document_classifications) :
                        LET s == save_classifications_to_db(
                                     document_classifications, processing_records,
                                     classifications, fail_at, pick)
                        IN  /\ fail_at = 0 \/ Ascending(order)
                            /\ document_classifications' = s.document_classifications
                            /\ processing_records' = s.processing_records
                            /\ result' =
                                  IF s.raised
                                  THEN Outcome("run_classification", TRUE, "persist",
                                               Pending(Len(classifications), fail_at),
                                               selected, {})
                                  ELSE Outcome("run_classification", FALSE, "none", 0,
                                               selected,
                                               Ids(classifications, "document_id"))
                            /\ UNCHANGED <<notion_documents, weekly_summaries, args>>

Next ==
    \/ run_extraction
    \/ run_classification

Spec == Init /\ [][Next]_vars

-----------------------------------------------------------------------------
(* Claims on the stage runs *)

\* C1: over any sequence of extraction and classification runs, no
\* document's ProcessingRecord status changes from CLASSIFIED back to
\* EXTRACTED.
C1_StatusNeverRegresses ==
    [][\A id \in DOMAIN processing_records :
          processing_records[id].status = CLASSIFIED
              => processing_records'[id].status # EXTRACTED]_vars

\* C3: every stored Classification has a sub-category that belongs to the
\* sub-category set of its primary category.
C3_SubCategoryMatchesType ==
    \A i \in DOMAIN document_classifications :
        document_classifications[i].sub_category
            \in allowed_subcategories(document_classifications[i].document_type)

\* C7: a stage run whose persist raises leaves the Documents,
\* Classifications and ProcessingRecords exactly as they were before the
\* call.
C7_FailedPersistChangesNothing ==
    [][(result'.raised /\ result'.phase = "persist")
          => /\ notion_documents' = notion_documents
             /\ document_classifications' = document_classifications
             /\ processing_records' = processing_records]_vars

\* C7 witness: an extraction persist raised after its session had handled
\* documents, on a store that already holds documents and classifications.
C7_PersistRaisedMidBatch ==
    /\ result.op = "run_extraction"
    /\ result.raised
    /\ result.phase = "persist"
    /\ result.pending >= 1
    /\ document_classifications # <<>>

\* C10: after a classification run every selected document is CLASSIFIED
\* if its classification succeeded and FAILED if it failed.
C10_SelectedEndClassifiedOrFailed ==
    (result.op = "run_classification" /\ ~result.raised)
        => \A id \in result.selected :
              processing_records[id].status =
                  IF id \in result.returned THEN CLASSIFIED ELSE FAILED

-----------------------------------------------------------------------------
(* classify_documents_batch on its own: specification SpecBatch *)

\* Oracle answers of every kind classify_document tells apart: valid,
\* valid inside a json fence, inside a bare fence, no JSON, a key missing,
\* an unknown primary category, a confidence above 1.0, a failed call
BatchResponses ==
    LET valid == [json |-> TRUE,
                  data |-> [document_type |-> KNOWLEDGE,
                            sub_category |-> "tutorial",
                            confidence_score |-> Number(70),
                            classification_reason |-> "reason"]]
    IN  {Answer(PROJECT, "feature_request", Number(90)),
         Reply("fence_json", valid, "fence"),
         Reply("fence", valid, "fence"),
         Reply("", NotJson, ""),
         Reply("", [json |-> TRUE,
                    data |-> [document_type |-> PROJECT,
                              sub_category |-> "planning",
                              confidence_score |-> Number(50)]], ""),
         Answer("other", "planning", Number(50)),
         Answer(KNOWLEDGE, "reference", Number(150)),
         ApiError}

\* A stored document of generation 1
StoredDocument(id) ==
    NotionDocumentDB(NotionDocument([id |-> id, version |-> 1, readable |-> TRUE]))

BatchCalls ==
    UNION {[documents : [1..n -> {StoredDocument(id) : id \in DocIds}],
            responses : [1..n -> BatchResponses]] : n \in 0..MaxBatch}

InitBatch ==
    /\ notion_documents = <<>>
    /\ processing_records = <<>>
    /\ document_classifications = <<>>
    /\ weekly_summaries = <<>>
    /\ args \in BatchCalls
    /\ result = NoCall

\* One call of classify_documents_batch; returned holds the list it gave
classify_batch_call ==
    /\ result = NoCall
    /\ LET batch == classify_documents_batch(args.documents, args.responses)
       IN  result' = Outcome("classify_documents_batch", batch.raised, "none", 0,
                             {}, batch.classifications)
    /\ UNCHANGED <<store, args>>

NextBatch == classify_batch_call

SpecBatch == InitBatch /\ [][NextBatch]_vars

\* The positions of the batch whose classification does not fail
Succeeded ==
    {i \in DOMAIN args.documents :
        ~classify_document(args.documents[i], args.responses[i]).raised}

\* The k-th element of a set of numbers
Nth(S, k) == CHOOSE i \in S : Cardinality({j \in S : j < i}) = k - 1

\* C4: classify_batch does not raise and returns exactly one
\* Classification for each document that did not fail, in input order,
\* and none for the failed ones.
C4_BatchReturnsTheSuccesses ==
    result.op = "classify_documents_batch"
        => /\ ~result.raised
           /\ Len(result.returned) = Cardinality(Succeeded)
           /\ \A k \in 1..Len(result.returned) :
                 /\ result.returned[k].document_id
                        = args.documents[Nth(Succeeded, k)].id
                 /\ result.returned[k].document_type
                        = args.responses[Nth(Succeeded, k)].body.data.document_type
                 /\ result.returned[k].sub_category
                        = args.responses[Nth(Succeeded, k)].body.data.sub_category

\* C4 witness: a batch in which a document failed and a later one was
\* classified and returned.
C4_FailureBeforeSuccess ==
    /\ result.op = "classify_documents_batch"
    /\ \E i, j \in DOMAIN args.documents :
          i < j /\ i \notin Succeeded /\ j \in Succeeded
    /\ result.returned # <<>>

-----------------------------------------------------------------------------
(* Extraction against changing source snapshots: specification SpecSnapshot *)

\* The snapshots: every page at most once, in id order, of either
\* generation; a page of generation 1 may be unreadable
Snapshots ==
    {s \in SeqsUpTo({p \in SourceItems : p.readable \/ p.version = 1}, MaxDocs) :
        \A i, j \in DOMAIN s : i < j => s[i].id < s[j].id}

SnapshotRuns ==
    {[items |-> items, limit |-> NoLimit, fail_query |-> 0, fail_at |-> fail_at] :
        items \in Snapshots, fail_at \in {0, 1}}

\* run_extraction against a snapshot; args keeps the call
run_extraction_snapshot ==
    \E run \in SnapshotRuns :
        /\ extraction(run)
        /\ args' = run

NextSnapshot == run_extraction_snapshot

SpecSnapshot == Init /\ [][NextSnapshot]_vars

\* C2: after a successful extraction of a snapshot, extracting the same
\* snapshot again leaves the store as it is, every extracted Document
\* carries the field values of the snapshot, and every Document has its
\* one ProcessingRecord, in status EXTRACTED both times.
C2_ReextractionIdempotent ==
    (result.op = "run_extraction" /\ ~result.raised)
        => LET e == extract_documents_from_database(args.items, args.limit, 0)
               again == save_documents_to_db(notion_documents, processing_records,
                                             e.documents, 0)
           IN  /\ ~again.raised
               /\ again.notion_documents = notion_documents
               /\ again.processing_records = processing_records
               /\ DOMAIN processing_records = DOMAIN notion_documents
               /\ \A i \in DOMAIN e.documents :
                     /\ notion_documents[e.documents[i].id]
                            = NotionDocumentDB(e.documents[i])
                     /\ processing_records[e.documents[i].id].status = EXTRACTED

-----------------------------------------------------------------------------
(* The persist operations called directly: specification SpecPersist *)

\* The document batches: documents of generation 1, an identity possibly
\* listed twice
PersistDocuments ==
    SeqsUpTo({NotionDocument([id |-> id, version |-> 1, readable |-> TRUE]) :
                 id \in DocIds}, MaxBatch)

\* The classification batches: two different classifications of every
\* identity, an identity possibly listed twice
PersistClassifications ==
    SeqsUpTo({DocumentClassification(id, data) :
                 id \in DocIds,
                 data \in {[document_type |-> PROJECT,
                            sub_category |-> "planning",
                            confidence_score |-> Number(90),
                            classification_reason |-> "reason"],
                           [document_type |-> KNOWLEDGE,
                            sub_category |-> "reference",
                            confidence_score |-> Number(60),
                            classification_reason |-> "reason"]}},
             MaxBatch)

\* One call of save_documents_to_db
save_documents_call ==
    \E documents \in PersistDocuments :
    \E fail_at \in {0, Len(documents) + 1} :
        LET s == save_documents_to_db(notion_documents, processing_records,
                                      documents, fail_at)
        IN  /\ notion_documents' = s.notion_documents
            /\ processing_records' = s.processing_records
            /\ result' = Outcome("save_documents_to_db", s.raised,
                                 IF s.raised THEN "persist" ELSE "none",
                                 0, {}, {})
            /\ UNCHANGED <<document_classifications, weekly_summaries, args>>

\* One call of save_classifications_to_db
save_classifications_call ==
    \E classifications \in PersistClassifications :
    \E fail_at \in {0, Len(classifications) + 1} :
    \E pick \in Picks(document_classifications) :
        LET s == save_classifications_to_db(document_classifications,
                                            processing_records,
                                            classifications, fail_at, pick)
        IN  /\ document_classifications' = s.document_classifications
            /\ processing_records' = s.processing_records
            /\ result' = Outcome("save_classifications_to_db", s.raised,
                                 IF s.raised THEN "persist" ELSE "none",
                                 0, {}, {})
            /\ UNCHANGED <<notion_documents, weekly_summaries, args>>

NextPersist ==
    \/ save_documents_call
    \/ save_classifications_call

SpecPersist == Init /\ [][NextPersist]_vars

\* C5: after any sequence of persist calls with any batches, a batch that
\* lists an identity twice included, the store holds at most one
\* Classification per document identity.
C5_OneClassificationPerDocument ==
    \A id \in DocIds : Cardinality(rows_of(document_classifications, id)) <= 1

-----------------------------------------------------------------------------
(* summarizer.py *)

\* A Python dict is a function; {} is the function with no argument
EmptyDict == [k \in {} |-> 0]

\* d.get(k, default)
dict_get(d, k, default) == IF k \in DOMAIN d THEN d[k] ELSE default

\* datetime.isoformat()
isoformat(t) == <<"iso", t>>

\* The dict get_weekly_documents builds from one joined row
document_detail(doc, classification) ==
    [id |-> doc.id,
     title |-> doc.title,
     content |-> doc.content,
     type |-> classification.document_type,
     sub_category |-> classification.sub_category,
     confidence |-> classification.confidence_score,
     created_time |-> isoformat(doc.created_time)]

\* get_weekly_documents: the join of notion_documents and
\* document_classifications on the document id, one row per pair, the
\* document created in [week_start, week_end] (both ends included), most
\* recent first.  Rows of equal created_time come in an order the database
\* decides; they are rows of the same document here.
get_weekly_documents(db_docs, db_cls, week_start, week_end) ==
    LET joined == {i \in DOMAIN db_cls :
                      /\ db_cls[i].document_id \in DOMAIN db_docs
                      /\ db_docs[db_cls[i].document_id].created_time >= week_start
                      /\ db_docs[db_cls[i].document_id].created_time <= week_end}
        created(i) == db_docs[db_cls[i].document_id].created_time
        ordered == CHOOSE o \in Orders(joined) :
                       \A a, b \in DOMAIN o : a < b => created(o[a]) >= created(o[b])
    IN  [k \in DOMAIN ordered |->
            document_detail(db_docs[db_cls[ordered[k]].document_id],
                            db_cls[ordered[k]])]

\* The loop "counts[k] = counts.get(k, 0) + 1" over doc[key]
RECURSIVE count_by(_, _, _)
count_by(documents, key, counts) ==
    IF documents = <<>> THEN counts
    ELSE LET k == Head(documents)[key]
         IN  count_by(Tail(documents), key,
                      [x \in DOMAIN counts \cup {k} |->
                          IF x = k THEN dict_get(counts, k, 0) + 1 ELSE counts[x]])

\* The same loop with "counts[k] = 1" in place of the increment
RECURSIVE count_by_overwriting(_, _, _)
count_by_overwriting(documents, key, counts) ==
    IF documents = <<>> THEN counts
    ELSE LET k == Head(documents)[key]
         IN  count_by_overwriting(Tail(documents), key,
                      [x \in DOMAIN counts \cup {k} |->
                          IF x = k THEN 1 ELSE counts[x]])

calculate_statistics_overwriting(documents) ==
    [total_documents |-> Len(documents),
     documents_by_type |-> count_by_overwriting(documents, "type", EmptyDict),
     documents_by_subcategory |->
         count_by_overwriting(documents, "sub_category", EmptyDict)]

calculate_weekly_statistics(documents) ==
    [total_documents |-> Len(documents),
     documents_by_type |-> count_by(documents, "type", EmptyDict),
     documents_by_subcategory |-> count_by(documents, "sub_category", EmptyDict)]

WeeklySummary(week_start, week_end, total_documents, by_type, by_subcategory, summary_text, key_insights) ==
    [week_start |-> week_start,
     week_end |-> week_end,
     total_documents |-> total_documents,
     documents_by_type |-> by_type,
     documents_by_subcategory |-> by_subcategory,
     summary_text |-> summary_text,
     key_insights |-> key_insights,
     generated_at |-> utcnow]

NoActivityText ==
    "No documents were processed during this week, making it difficult to analyze mindset patterns."

NoActivityInsight ==
    "No document activity to analyze for mindset insights this week."

\* What the narrative oracle gives: as for classify_document, a failed
\* call or a text between optional fences; the fences are cut the same way
SummaryData(data) == Reply("", [json |-> TRUE, data |-> data], "")

\* The part of generate_summary after "if not documents": statistics, one
\* oracle call, json.loads, the two keys read with .get and a default
summarize_documents(documents, week_start, week_end, response) ==
    LET stats == calculate_weekly_statistics(documents)
    IN  IF response.call = "ok" /\ json_loads_ok(response)
        THEN [raised |-> FALSE, oracle_calls |-> 1,
              summary |->
                  WeeklySummary(week_start, week_end,
                      stats.total_documents,
                      stats.documents_by_type,
                      stats.documents_by_subcategory,
                      dict_get(response.body.data, "summary_text", ""),
                      dict_get(response.body.data, "key_insights", <<>>))]
        ELSE [raised |-> TRUE, oracle_calls |-> 1, summary |-> None]

\* generate_summary without its "if not documents" branch
generate_summary_always_asking(db_docs, db_cls, week_start, week_end, response) ==
    summarize_documents(get_weekly_documents(db_docs, db_cls, week_start, week_end),
                        week_start, week_end, response)

\* generate_summary; response is what the oracle would answer if asked
generate_summary(db_docs, db_cls, week_start, week_end, response) ==
    LET documents == get_weekly_documents(db_docs, db_cls, week_start, week_end)
    IN  IF documents = <<>>
        THEN [raised |-> FALSE, oracle_calls |-> 0,
              summary |->
                  WeeklySummary(week_start, week_end, 0, EmptyDict, EmptyDict,
                                NoActivityText, <<NoActivityInsight>>)]
        ELSE summarize_documents(documents, week_start, week_end, response)

WeeklySummaryDB(summary) ==
    [week_start |-> summary.week_start,
     week_end |-> summary.week_end,
     total_documents |-> summary.total_documents,
     documents_by_type |-> json_dumps(summary.documents_by_type),
     documents_by_subcategory |-> json_dumps(summary.documents_by_subcategory),
     summary_text |-> summary.summary_text,
     key_insights |-> json_dumps(summary.key_insights),
     generated_at |-> summary.generated_at]

\* The branch "if existing_summary:"
update_existing_summary(existing_summary, summary) ==
    [existing_summary EXCEPT
        !.total_documents = summary.total_documents,
        !.documents_by_type = json_dumps(summary.documents_by_type),
        !.documents_by_subcategory = json_dumps(summary.documents_by_subcategory),
        !.summary_text = summary.summary_text,
        !.key_insights = json_dumps(summary.key_insights),
        !.generated_at = summary.generated_at]

\* The rows of weekly_summaries of a week
summary_rows(db_sums, week_start, week_end) ==
    {i \in DOMAIN db_sums : /\ db_sums[i].week_start = week_start
                            /\ db_sums[i].week_end = week_end}

\* .first() of the query by week, without ORDER BY: pick as in first_row
first_summary(db_sums, week_start, week_end, pick) ==
    LET rows == summary_rows(db_sums, week_start, week_end)
        n == ((pick - 1) % Cardinality(rows)) + 1
    IN  IF rows = {} THEN 0
        ELSE CHOOSE i \in rows : Cardinality({j \in rows : j < i}) = n - 1

\* save_summary_to_db with the query taken out: every call adds a row
save_summary_always_adding(db_sums, summary, fail_at, pick) ==
    IF fail_at # 0
    THEN [raised |-> TRUE, weekly_summaries |-> db_sums, existing |-> <<>>]
    ELSE [raised |-> FALSE,
          weekly_summaries |-> Append(db_sums, WeeklySummaryDB(summary)),
          existing |-> <<>>]

\* save_summary_to_db.  fail_at = 1: the query raises; 2: the commit
\* raises; 0: neither.  existing holds the row the query found, if any.
save_summary_to_db(db_sums, summary, fail_at, pick) ==
    LET existing == first_summary(db_sums, summary.week_start,
                                  summary.week_end, pick)
    IN  IF fail_at # 0
        THEN [raised |-> TRUE, weekly_summaries |-> db_sums, existing |-> <<>>]
        ELSE IF existing # 0
        THEN [raised |-> FALSE,
              weekly_summaries |->
                  [db_sums EXCEPT ![existing] = update_existing_summary(@, summary)],
              existing |-> <<db_sums[existing]>>]
        ELSE [raised |-> FALSE,
              weekly_summaries |-> Append(db_sums, WeeklySummaryDB(summary)),
              existing |-> <<>>]

\* Optional[datetime]: date = None is written NoDate
NoDate == 0 - 1

\* Week boundaries for a week that starts on Sunday
get_week_boundaries_from_sunday(date, clock) ==
    LET d == IF date = NoDate THEN clock ELSE date
        weekday == ((d \div Day) + 1) % 7
        week_start == ((d - weekday * Day) \div Day) * Day
    IN  [week_start |-> week_start,
         week_end |-> week_start + 6 * Day
                          + (23 * 3600 + 59 * 60 + 59) * TicksPerSecond]

\* get_week_boundaries.  Instant 0 is a Monday, 00:00:00; clock is the
\* reading of datetime.utcnow() the call takes when date is None.
get_week_boundaries(date, clock) ==
    LET d == IF date = NoDate THEN clock ELSE date
        weekday == (d \div Day) % 7
        week_start == ((d - weekday * Day) \div Day) * Day
    IN  [week_start |-> week_start,
         week_end |-> week_start + 6 * Day
                          + (23 * 3600 + 59 * 60 + 59) * TicksPerSecond]

-----------------------------------------------------------------------------
(* The summary stage: specification SpecSummary *)

\* The outcome of a summarizer call: the week it was about, the summary
\* it built, the number of oracle calls it made and the row its persist
\* found, if any
SummaryOutcome(op, raised, phase, week, summary, oracle_calls, existing) ==
    [op |-> op, raised |-> raised, phase |-> phase,
     week_start |-> week.week_start, week_end |-> week.week_end,
     summary |-> summary, oracle_calls |-> oracle_calls, existing |-> existing]

\* The classification the seeded stores hold for a document
SeedClassification(id) ==
    DocumentClassification(id,
        IF id % 2 = 1
        THEN [document_type |-> PROJECT, sub_category |-> "planning",
              confidence_score |-> Number(90), classification_reason |-> "reason"]
        ELSE [document_type |-> KNOWLEDGE, sub_category |-> "reference",
              confidence_score |-> Number(60), classification_reason |-> "reason"])

\* The store after an extraction of every page and a classification run
\* that classified the documents 1..classified
SeededStore(classified) ==
    LET extracted ==
            save_documents_to_db(<<>>, <<>>,
                [id \in DocIds |->
                    NotionDocument([id |-> id, version |-> 1, readable |-> TRUE])],
                0)
        saved ==
            save_classifications_to_db(<<>>, extracted.processing_records,
                [id \in 1..classified |-> SeedClassification(id)], 0, 1)
    IN  [notion_documents |-> extracted.notion_documents,
         processing_records |-> saved.processing_records,
         document_classifications |-> saved.document_classifications]

InitSummary ==
    \E classified \in {0, 1, MaxDocs} :
        /\ notion_documents = SeededStore(classified).notion_documents
        /\ processing_records = SeededStore(classified).processing_records
        /\ document_classifications = SeededStore(classified).document_classifications
        /\ weekly_summaries = <<>>
        /\ args = None
        /\ result = NoCall

\* The dates run_weekly_summary is called with: in the first week, in the
\* last tick before the second Monday, in the second week
SummaryDates == {Day + 1, Week - 1, Week + Day}

\* The weeks generate_summary is called with: the first two calendar
\* weeks, and a span that begins after the first document was created
\* and ends at the instant the second was
GenerateWeeks ==
    {get_week_boundaries(0, 0), get_week_boundaries(Week, 0),
     [week_start |-> 1, week_end |-> Week + Day]}

\* The answers of the narrative oracle: both keys, no key, no JSON, a
\* failed call
SummaryResponses ==
    {SummaryData([summary_text |-> "text", key_insights |-> <<"insight">>]),
     SummaryData(EmptyDict),
     Reply("", NotJson, ""),
     ApiError}

\* The summaries save_summary_to_db is called with directly
DirectSummaries ==
    {WeeklySummary(week.week_start, week.week_end, 0, EmptyDict, EmptyDict,
                   text, <<>>) :
        week \in {get_week_boundaries(0, 0), get_week_boundaries(Week, 0)},
        text \in {"first", "second"}}

\* The first() decisions that differ on this table
SummaryPicks(db_sums) ==
    {1} \cup {k \in 1..Len(db_sums) :
                 \E i \in DOMAIN db_sums :
                    k <= Cardinality(summary_rows(db_sums, db_sums[i].week_start,
                                                  db_sums[i].week_end))}

\* One call of generate_summary; args keeps the week and the answer the
\* oracle had ready
generate_summary_call ==
    \E week \in GenerateWeeks, response \in SummaryResponses :
        LET g == generate_summary(notion_documents, document_classifications,
                                  week.week_start, week.week_end, response)
        IN  /\ result' = SummaryOutcome("generate_summary", g.raised,
                                        IF g.raised THEN "generate" ELSE "none",
                                        week, g.summary, g.oracle_calls, <<>>)
            /\ args' = [week |-> week, response |-> response]
            /\ UNCHANGED store

\* One call of save_summary_to_db
save_summary_call ==
    \E summary \in DirectSummaries, fail_at \in 0..2 :
    \E pick \in SummaryPicks(weekly_summaries) :
        LET s == save_summary_to_db(weekly_summaries, summary, fail_at, pick)
        IN  /\ weekly_summaries' = s.weekly_summaries
            /\ result' = SummaryOutcome("save_summary_to_db", s.raised,
                                        IF s.raised THEN "persist" ELSE "none",
                                        summary, summary, 0, s.existing)
            /\ args' = [summary |-> summary]
            /\ UNCHANGED <<notion_documents, processing_records,
                           document_classifications>>

\* WeeklySummarizer.run_weekly_summary: boundaries, generate, persist;
\* args keeps the date and the answer the oracle had ready
run_weekly_summary ==
    \E date \in SummaryDates \cup {NoDate}, response \in SummaryResponses :
    \E clock \in IF date = NoDate THEN SummaryDates ELSE {0} :
        LET week == get_week_boundaries(date, clock)
            g == generate_summary(notion_documents, document_classifications,
                                  week.week_start, week.week_end, response)
        IN  IF g.raised
            THEN /\ result' = SummaryOutcome("run_weekly_summary", TRUE, "generate",
                                             week, None, g.oracle_calls, <<>>)
                 /\ args' = [date |-> date, response |-> response]
                 /\ UNCHANGED store
            ELSE \E fail_at \in {0, 2}, pick \in SummaryPicks(weekly_summaries) :
                    LET s == save_summary_to_db(weekly_summaries, g.summary,
                                                fail_at, pick)
                    IN  /\ weekly_summaries' = s.weekly_summaries
                        /\ result' = SummaryOutcome("run_weekly_summary", s.raised,
                                          IF s.raised THEN "persist" ELSE "none",
                                          week, g.summary, g.oracle_calls, s.existing)
                        /\ args' = [date |-> date, response |-> response]
                        /\ UNCHANGED <<notion_documents, processing_records,
                                       document_classifications>>

NextSummary ==
    \/ generate_summary_call
    \/ save_summary_call
    \/ run_weekly_summary

SpecSummary == InitSummary /\ [][NextSummary]_vars

\* A persist of a summary came back without raising
SummaryPersisted(outcome) ==
    /\ outcome.op \in {"save_summary_to_db", "run_weekly_summary"}
    /\ ~outcome.raised

\* C6: after any sequence of summary persist calls the store holds one
\* record per (week_start, week_end) pair; the record of the pair last
\* persisted carries the field values of that call, and a record changes
\* only in a persist for its own pair, so every record carries the values
\* of the last call for its pair.
C6_SummaryUpsertByWeek ==
    [][/\ \A i, j \in DOMAIN weekly_summaries' :
             (/\ weekly_summaries'[i].week_start = weekly_summaries'[j].week_start
              /\ weekly_summaries'[i].week_end = weekly_summaries'[j].week_end)
                 => i = j
       /\ SummaryPersisted(result')
             => \E i \in DOMAIN weekly_summaries' :
                   weekly_summaries'[i] = WeeklySummaryDB(result'.summary)
       /\ Len(weekly_summaries') >= Len(weekly_summaries)
       /\ \A i \in DOMAIN weekly_summaries :
             /\ weekly_summaries'[i].week_start = weekly_summaries[i].week_start
             /\ weekly_summaries'[i].week_end = weekly_summaries[i].week_end
             /\ weekly_summaries'[i] # weekly_summaries[i]
                   => /\ SummaryPersisted(result')
                      /\ result'.summary.week_start = weekly_summaries[i].week_start
                      /\ result'.summary.week_end = weekly_summaries[i].week_end]_vars

\* C6 witness: a persist found the record of its week, holding other
\* values, while the store holds the record of another week too.
C6_ExistingSummaryReplaced ==
    /\ SummaryPersisted(result)
    /\ result.existing # <<>>
    /\ result.existing # <<WeeklySummaryDB(result.summary)>>
    /\ Len(weekly_summaries) >= 2

\* A Classification of a stored document created in [week_start, week_end]
Qualifies(i, week_start, week_end) ==
    /\ document_classifications[i].document_id \in DOMAIN notion_documents
    /\ LET created ==
               notion_documents[document_classifications[i].document_id].created_time
       IN  week_start <= created /\ created <= week_end

\* C8: when no classified document was created in [week_start, week_end],
\* generate returns the summary with total_documents = 0, empty count
\* mappings, the fixed text and its single insight, and asks the oracle
\* nothing.
C8_EmptyWeekGivesCannedSummary ==
    (/\ result.op = "generate_summary"
     /\ \A i \in DOMAIN document_classifications :
           ~Qualifies(i, result.week_start, result.week_end))
        => /\ ~result.raised
           /\ result.oracle_calls = 0
           /\ result.summary.week_start = result.week_start
           /\ result.summary.week_end = result.week_end
           /\ result.summary.total_documents = 0
           /\ DOMAIN result.summary.documents_by_type = {}
           /\ DOMAIN result.summary.documents_by_subcategory = {}
           /\ result.summary.summary_text = NoActivityText
           /\ result.summary.key_insights = <<NoActivityInsight>>

\* C8 witness: generate answered for a week without qualifying documents
\* while the store holds classified documents of another week.
C8_EmptyWeekBesideClassified ==
    /\ result.op = "generate_summary"
    /\ document_classifications # <<>>
    /\ \A i \in DOMAIN document_classifications :
          ~Qualifies(i, result.week_start, result.week_end)
    /\ ~result.raised
    /\ result.summary.total_documents = 0

-----------------------------------------------------------------------------
(* calculate_weekly_statistics on its own: specification SpecStats *)

\* The document dicts of the statistics calls: every primary category
\* with sub-categories of both sets
StatDocuments ==
    {document_detail(StoredDocument(1),
        DocumentClassification(1,
            [document_type |-> t, sub_category |-> s,
             confidence_score |-> Number(90),
             classification_reason |-> "reason"])) :
        t \in DocumentType, s \in {"planning", "research", "reference"}}

InitStats ==
    /\ notion_documents = <<>>
    /\ processing_records = <<>>
    /\ document_classifications = <<>>
    /\ weekly_summaries = <<>>
    /\ args \in SeqsUpTo(StatDocuments, MaxStatDocs)
    /\ result = NoCall

\* One call of calculate_weekly_statistics
calculate_statistics_call ==
    /\ result = NoCall
    /\ result' = [op |-> "calculate_weekly_statistics", raised |-> FALSE,
                  stats |-> calculate_weekly_statistics(args)]
    /\ UNCHANGED <<store, args>>

NextStats == calculate_statistics_call

SpecStats == InitStats /\ [][NextStats]_vars

\* The sum of the values of a dict
RECURSIVE SumOfValues(_)
SumOfValues(d) ==
    IF DOMAIN d = {} THEN 0
    ELSE LET k == CHOOSE x \in DOMAIN d : TRUE
         IN  d[k] + SumOfValues([x \in DOMAIN d \ {k} |-> d[x]])

\* The number of documents of a list whose key has the value v
CountOf(documents, key, v) ==
    Cardinality({i \in DOMAIN documents : documents[i][key] = v})

\* C9: aggregate returns total_documents equal to the number of pairs,
\* documents_by_type[c] the number of pairs of primary category c and
\* documents_by_subcategory[s] the number of pairs of sub-category s;
\* both mappings sum to total_documents and hold no key with count 0.
C9_StatisticsCountThePairs ==
    result.op = "calculate_weekly_statistics"
        => LET stats == result.stats
           IN  /\ stats.total_documents = Len(args)
               /\ DOMAIN stats.documents_by_type
                      = {c \in DocumentType : CountOf(args, "type", c) > 0}
               /\ \A c \in DOMAIN stats.documents_by_type :
                     stats.documents_by_type[c] = CountOf(args, "type", c)
               /\ DOMAIN stats.documents_by_subcategory
                      = {c \in SubCategory : CountOf(args, "sub_category", c) > 0}
               /\ \A c \in DOMAIN stats.documents_by_subcategory :
                     stats.documents_by_subcategory[c]
                         = CountOf(args, "sub_category", c)
               /\ SumOfValues(stats.documents_by_type) = stats.total_documents
               /\ SumOfValues(stats.documents_by_subcategory) = stats.total_documents

\* C9 witness: statistics of a list with both primary categories, one of
\* them counted more than once.
C9_BothTypesOneRepeated ==
    /\ result.op = "calculate_weekly_statistics"
    /\ DOMAIN result.stats.documents_by_type = DocumentType
    /\ \E c \in DocumentType : result.stats.documents_by_type[c] >= 2

-----------------------------------------------------------------------------
(* A classification run under every kind of oracle answer: specification   *)
(* SpecClassify                                                            *)

\* The store when the run starts: every page extracted, the documents
\* 1..classified classified by an earlier run
InitClassify ==
    \E classified \in {0, 1, MaxDocs} :
        /\ notion_documents = SeededStore(classified).notion_documents
        /\ processing_records = SeededStore(classified).processing_records
        /\ document_classifications = SeededStore(classified).document_classifications
        /\ weekly_summaries = <<>>
        /\ args = None
        /\ result = NoCall

\* DocumentClassifier.run_classification, the oracle answering with any
\* of BatchResponses; args keeps the order of the selected documents and
\* the answers, returned the list the run gave back
run_classification_answers ==
    /\ result = NoCall
    /\ LET selected == get_unclassified_documents(notion_documents,
                                                  processing_records)
       IN  IF selected = {}
           THEN /\ result' = Outcome("run_classification", FALSE, "none", 0, {}, <<>>)
                /\ args' = [order |-> <<>>, responses |-> <<>>]
                /\ UNCHANGED store
           ELSE \E order \in Orders(selected) :
                \E responses \in [DOMAIN order -> BatchResponses] :
                   LET documents ==
                           [i \in DOMAIN order |-> notion_documents[order[i]]]
                       batch == classify_documents_batch(documents, responses)
                       s == save_classifications_to_db(
                                document_classifications, processing_records,
                                batch.classifications, 0, 1)
                   IN  /\ document_classifications' = s.document_classifications
                       /\ processing_records' = s.processing_records
                       /\ result' = Outcome("run_classification",
                                            batch.raised \/ s.raised,
                                            IF batch.raised THEN "classify"
                                            ELSE IF s.raised THEN "persist"
                                            ELSE "none",
                                            0, selected, batch.classifications)
                       /\ args' = [order |-> order, responses |-> responses]
                       /\ UNCHANGED <<notion_documents, weekly_summaries>>

NextClassify == run_classification_answers

SpecClassify == InitClassify /\ [][NextClassify]_vars

\* The three values of a Classification are inside their closed sets
WithinEnumerations(c) ==
    /\ c.document_type \in {"project", "knowledge"}
    /\ c.sub_category \in {"feature_request", "bug_report", "planning", "research",
                           "tutorial", "reference", "best_practice", "case_study",
                           "documentation"}
    /\ 0 <= c.confidence_score /\ c.confidence_score <= 100

\* An answer that is no JSON, lacks a required key or carries a value
\* outside the closed sets
InvalidAnswer(response) ==
    /\ response.call = "ok"
    /\ \/ ~response.body.json
       \/ \E k \in {"document_type", "sub_category", "confidence_score",
                    "classification_reason"} : k \notin DOMAIN response.body.data
       \/ ~WithinEnumerations(
              [document_type |-> response.body.data.document_type,
               sub_category |-> response.body.data.sub_category,
               confidence_score |-> response.body.data.confidence_score.value])

\* C11: no Classification returned by the run or held by the store has a
\* primary category or sub-category outside its enumeration or a
\* confidence outside [0.0, 1.0]; a document whose answer is no JSON,
\* lacks a key or carries such a value gets no Classification, and the
\* run does not raise because of it.
C11_OnlyValidClassifications ==
    /\ \A i \in DOMAIN document_classifications :
          WithinEnumerations(document_classifications[i])
    /\ result.op = "run_classification"
          => /\ ~result.raised
             /\ \A k \in DOMAIN result.returned :
                   WithinEnumerations(result.returned[k])
             /\ \A i \in DOMAIN args.order :
                   InvalidAnswer(args.responses[i])
                       => /\ \A k \in DOMAIN result.returned :
                                result.returned[k].document_id # args.order[i]
                          /\ rows_of(document_classifications, args.order[i]) = {}
                          /\ processing_records[args.order[i]].status = EXTRACTED

\* C11 witness: in one run a document whose answer carried a confidence
\* above 1.0 got no Classification while another document was classified
\* and stored.
C11_InvalidBesideValid ==
    /\ result.op = "run_classification"
    /\ \E i, j \in DOMAIN args.order :
          /\ InvalidAnswer(args.responses[i])
          /\ args.responses[i].body.json
          /\ "confidence_score" \in DOMAIN args.responses[i].body.data
          /\ args.responses[i].body.data.confidence_score.value > 100
          /\ rows_of(document_classifications, args.order[j]) # {}
          /\ \E k \in DOMAIN result.returned :
                result.returned[k].document_id = args.order[j]

\* An answer of the narrative oracle that is no JSON or lacks the
\* narrative text or the insight list
LacksNarrative(response) ==
    /\ response.call = "ok"
    /\ \/ ~response.body.json
       \/ "summary_text" \notin DOMAIN response.body.data
       \/ "key_insights" \notin DOMAIN response.body.data

\* C12: a summarization run whose week is not empty and whose oracle
\* answer is no JSON or lacks the narrative text or the insight list
\* raises and leaves the stored WeeklySummary records as they were.
C12_BadNarrativeAbortsRun ==
    [][(/\ result'.op = "run_weekly_summary"
        /\ result'.oracle_calls = 1
        /\ LacksNarrative(args'.response))
          => /\ result'.raised
             /\ weekly_summaries' = weekly_summaries]_vars

-----------------------------------------------------------------------------
(* pipeline.py: run_full_pipeline, one stage step at a time: specification *)
(* SpecFull                                                                *)

\* A console line that leaves the count out
Printed_without_count(message, count) == [message |-> message, count |-> 0 - 1]

\* A line console.print writes: which message, and the count it carries
Printed(message, count) == [message |-> message, count |-> count]

\* A local of run_full_pipeline that is not assigned yet
NoCount == 0 - 1

\* A run_full_pipeline whose "except" swallows the exception and goes on
\* to the next stage
FullRun_swallowing(at, console, extracted_count, classified_count, summary_data) ==
    [op |-> "run_full_pipeline",
     at |-> IF at # "raised" THEN at
            ELSE IF classified_count # 0 - 1 THEN "returned"
            ELSE IF extracted_count # 0 - 1 THEN "classification_done"
            ELSE "extraction_done",
     raised |-> FALSE,
     console |-> console, extracted_count |-> extracted_count,
     classified_count |-> classified_count, summary_data |-> summary_data]

\* run_full_pipeline as its caller and its user see it.  at: the last
\* statement reached ("extraction_done": line 145 returned,
\* "classification_done": line 148 returned, "returned": line 161,
\* "raised": line 170); console: the lines printed so far;
\* extracted_count, classified_count, summary_data: its locals.
FullRun(at, console, extracted_count, classified_count, summary_data) ==
    [op |-> "run_full_pipeline", at |-> at, raised |-> at = "raised",
     console |-> console, extracted_count |-> extracted_count,
     classified_count |-> classified_count, summary_data |-> summary_data]

\* No full run is in progress
Idle == IF result.op = "none" THEN TRUE ELSE result.at \in {"returned", "raised"}

\* The calls of run_full_pipeline: the limit, and what the source and the
\* store do during extraction (the listing query raises, the commit
\* raises, or neither)
FullExtractionRuns ==
    LET items == [id \in DocIds |-> [id |-> id, version |-> 1, readable |-> TRUE]]
    IN  {[items |-> items, limit |-> NoLimit, fail_query |-> 0, fail_at |-> 0],
         [items |-> items, limit |-> 1, fail_query |-> 0, fail_at |-> 0],
         [items |-> items, limit |-> NoLimit, fail_query |-> 1, fail_at |-> 0],
         [items |-> items, limit |-> NoLimit, fail_query |-> 0,
          fail_at |-> MaxDocs + 1]}

\* The answers of the categorization oracle during a full run
FullResponses ==
    {Answer(PROJECT, "feature_request", Number(90)), Reply("", NotJson, "")}

\* The dates of a full run and the answers of the narrative oracle
FullDates == {Day + 1, Week + Day}

FullSummaryResponses ==
    {SummaryData([summary_text |-> "text", key_insights |-> <<"insight">>]),
     Reply("", NotJson, "")}

\* run_full_pipeline up to the return of run_extraction_step (line 145).
\* A step that raises prints its own line, run_full_pipeline prints
\* "Pipeline failed" and the exception leaves it.
run_extraction_step ==
    /\ Idle
    /\ \E run \in FullExtractionRuns :
          LET e == extract_documents_from_database(run.items, run.limit,
                                                   run.fail_query)
              s == save_documents_to_db(notion_documents, processing_records,
                                        e.documents, run.fail_at)
          IN  IF e.raised \/ s.raised
              THEN /\ result' = FullRun("raised",
                                    <<Printed("Extraction failed", NoCount),
                                      Printed("Pipeline failed", NoCount)>>,
                                    NoCount, NoCount, EmptyDict)
                   /\ UNCHANGED <<store, args>>
              ELSE /\ notion_documents' = s.notion_documents
                   /\ processing_records' = s.processing_records
                   /\ result' = FullRun("extraction_done",
                                    <<Printed("Extracted", Len(e.documents))>>,
                                    Len(e.documents), NoCount, EmptyDict)
                   /\ UNCHANGED <<document_classifications, weekly_summaries, args>>

\* run_full_pipeline from line 148 to the return of run_classification_step
run_classification_step ==
    /\ result.op = "run_full_pipeline"
    /\ result.at = "extraction_done"
    /\ LET selected == get_unclassified_documents(notion_documents,
                                                  processing_records)
           order == CHOOSE o \in Orders(selected) : Ascending(o)
       IN  \E responses \in [DOMAIN order -> FullResponses] :
           \E fail_at \in {0} \cup {n \in {Cardinality(selected) + 1} : selected # {}} :
              LET documents == [i \in DOMAIN order |-> notion_documents[order[i]]]
                  batch == classify_documents_batch(documents, responses)
                  s == save_classifications_to_db(
                           document_classifications, processing_records,
                           batch.classifications,
                           IF fail_at = 0 THEN 0
                           ELSE Len(batch.classifications) + 1, 1)
              IN  IF selected # {} /\ s.raised
                  THEN /\ result' = FullRun("raised",
                               result.console
                                   \o <<Printed("Classification failed", NoCount),
                                        Printed("Pipeline failed", NoCount)>>,
                               result.extracted_count, NoCount, EmptyDict)
                       /\ UNCHANGED <<store, args>>
                  ELSE /\ document_classifications' =
                              IF selected = {} THEN document_classifications
                              ELSE s.document_classifications
                       /\ processing_records' =
                              IF selected = {} THEN processing_records
                              ELSE s.processing_records
                       /\ result' = FullRun("classification_done",
                               Append(result.console,
                                      Printed("Classified",
                                              IF selected = {} THEN 0
                                              ELSE Len(batch.classifications))),
                               result.extracted_count,
                               IF selected = {} THEN 0
                               ELSE Len(batch.classifications),
                               EmptyDict)
                       /\ UNCHANGED <<notion_documents, weekly_summaries, args>>

\* The dict run_summary_step returns
summary_data_of(summary) ==
    [week_start |-> summary.week_start,
     week_end |-> summary.week_end,
     total_documents |-> summary.total_documents,
     summary_text |-> summary.summary_text,
     key_insights |-> summary.key_insights]

\* run_full_pipeline from line 151 to its return
run_summary_step ==
    /\ result.op = "run_full_pipeline"
    /\ result.at = "classification_done"
    /\ \E date \in FullDates, response \in FullSummaryResponses, fail_at \in {0, 2} :
          LET week == get_week_boundaries(date, date)
              g == generate_summary(notion_documents, document_classifications,
                                    week.week_start, week.week_end, response)
              s == save_summary_to_db(weekly_summaries, g.summary, fail_at, 1)
          IN  IF g.raised \/ s.raised
              THEN /\ result' = FullRun("raised",
                               result.console
                                   \o <<Printed("Summary generation failed", NoCount),
                                        Printed("Pipeline failed", NoCount)>>,
                               result.extracted_count, result.classified_count,
                               EmptyDict)
                   /\ UNCHANGED <<store, args>>
              ELSE /\ weekly_summaries' = s.weekly_summaries
                   /\ result' = FullRun("returned",
                               result.console
                                   \o <<Printed("Generated weekly summary",
                                                g.summary.total_documents),
                                        Printed("Documents extracted",
                                                result.extracted_count),
                                        Printed("Documents classified",
                                                result.classified_count)>>,
                               result.extracted_count, result.classified_count,
                               summary_data_of(g.summary))
                   /\ UNCHANGED <<notion_documents, processing_records,
                                  document_classifications, args>>

NextFull ==
    \/ run_extraction_step
    \/ run_classification_step
    \/ run_summary_step

SpecFull == Init /\ [][NextFull]_vars

\* The Classifications stored for documents created in the window of a
\* stored summary
InWindow(summary_row) ==
    {i \in DOMAIN document_classifications :
        Qualifies(i, summary_row.week_start, summary_row.week_end)}

\* C13: in every reachable state each stored WeeklySummary's
\* total_documents and its counts by category and by sub-category equal
\* the counts of the Classifications now stored for the documents created
\* in its window.
C13_SummariesMatchStore ==
    \A r \in DOMAIN weekly_summaries :
        LET row == weekly_summaries[r]
            window == InWindow(row)
            types == {document_classifications[i].document_type : i \in window}
            subs == {document_classifications[i].sub_category : i \in window}
        IN  /\ row.total_documents = Cardinality(window)
            /\ row.documents_by_type =
                   json_dumps([c \in types |->
                       Cardinality({i \in window :
                           document_classifications[i].document_type = c})])
            /\ row.documents_by_subcategory =
                   json_dumps([c \in subs |->
                       Cardinality({i \in window :
                           document_classifications[i].sub_category = c})])

\* The messages of a console
Messages(console) == {console[i].message : i \in DOMAIN console}

\* The lines the three stages print when they complete and when they fail
CompletedLine == <<"Extracted", "Classified", "Generated weekly summary">>

FailedLine == <<"Extraction failed", "Classification failed",
                "Summary generation failed">>

\* The stages a run has completed, and the stages that failed in it
Completed(run) == {k \in 1..3 : CompletedLine[k] \in Messages(run.console)}

Failed(run) == {k \in 1..3 : FailedLine[k] \in Messages(run.console)}

\* The position of a stage's line in the console
LineOf(run, message) == CHOOSE i \in DOMAIN run.console : run.console[i].message = message

\* C14: in a full run the stages execute in the order extraction,
\* classification, summarization, one per step and each on the store the
\* previous one committed; a stage that raises is the last one executed,
\* it leaves the store as the earlier stages committed it, and the
\* exception reaches the caller.
C14_StagesInOrderAbortOnRaise ==
    [][LET run == result'
       IN  /\ run.op = "run_full_pipeline"
           /\ \E n \in 0..3 : Completed(run) = 1..n
           /\ \A j, k \in Completed(run) :
                 j < k => LineOf(run, CompletedLine[j]) < LineOf(run, CompletedLine[k])
           /\ Cardinality(Failed(run)) <= 1
           /\ run.raised <=> Failed(run) # {}
           /\ run.raised => /\ Failed(run) = {Cardinality(Completed(run)) + 1}
                            /\ run.at = "raised"
                            /\ notion_documents' = notion_documents
                            /\ processing_records' = processing_records
                            /\ document_classifications' = document_classifications
                            /\ weekly_summaries' = weekly_summaries
           /\ (run.at = "returned") <=> (Completed(run) = 1..3)
           /\ Cardinality(Completed(run)) + Cardinality(Failed(run))
                 = IF Idle THEN 1
                   ELSE Cardinality(Completed(result)) + 1
           /\ Completed(run) = {1} /\ ~run.raised
                 => /\ document_classifications' = document_classifications
                    /\ weekly_summaries' = weekly_summaries
           /\ Completed(run) = {1, 2} /\ ~run.raised
                 => /\ notion_documents' = notion_documents
                    /\ weekly_summaries' = weekly_summaries
           /\ Completed(run) = {1, 2, 3}
                 => /\ notion_documents' = notion_documents
                    /\ processing_records' = processing_records
                    /\ document_classifications' = document_classifications]_vars

\* C14 witness: a run raised in its summary stage after extraction and
\* classification had committed documents and a classification.
C14_RaisedInSummaryAfterCommits ==
    /\ result.op = "run_full_pipeline"
    /\ result.raised
    /\ Failed(result) = {3}
    /\ result.extracted_count >= 1
    /\ result.classified_count >= 1
    /\ document_classifications # <<>>

\* C15: when a full run fails in the classification or the summarization
\* stage, what the orchestrator has reported still contains the count of
\* documents extracted in that run, and the count classified when it is
\* the summarization that failed.
C15_FailureKeepsEarlierCounts ==
    (result.op = "run_full_pipeline" /\ result.raised)
        => /\ Failed(result) \cap {2, 3} # {}
                 => /\ result.extracted_count >= 0
                    /\ [message |-> "Extracted", count |-> result.extracted_count]
                           \in Range(result.console)
           /\ 3 \in Failed(result)
                 => /\ result.classified_count >= 0
                    /\ [message |-> "Classified", count |-> result.classified_count]
                           \in Range(result.console)

\* C15 witness: a run failed in its summarization stage after it had
\* extracted documents and classified at least one.
C15_SummaryFailedAfterCounts ==
    /\ result.op = "run_full_pipeline"
    /\ result.raised
    /\ 3 \in Failed(result)
    /\ result.extracted_count = MaxDocs
    /\ result.classified_count >= 1

-----------------------------------------------------------------------------
(* Two invocations of run_full_pipeline on one store: specification        *)
(* SpecConcurrent                                                          *)
(*                                                                         *)
(* Each persist is two steps: the queries of its loop, which read the      *)
(* committed tables and decide between update and insert, and its commit,  *)
(* which flushes what was decided.  Between the two steps of one           *)
(* invocation the other may take any of its own.  Every batch has one      *)
(* element; the source, the oracles and the store raise nothing of their   *)
(* own here.                                                               *)

Invocations == {1, 2}

\* The position of an invocation and the session it holds open
Frame(at, session) == [op |-> "run_full_pipeline", at |-> at,
                       raised |-> at = "raised", session |-> session]

InitConcurrent ==
    /\ notion_documents = <<>>
    /\ processing_records = <<>>
    /\ document_classifications = <<>>
    /\ weekly_summaries = <<>>
    /\ \E date \in FullDates : args =
              [document |->
                   NotionDocument([id |-> 1, version |-> 1, readable |-> TRUE]),
               response |-> Answer(PROJECT, "feature_request", Number(90)),
               date |-> date,
               narrative |-> SummaryData([summary_text |-> "text",
                                          key_insights |-> <<"insight">>])]
    /\ result = [p \in Invocations |-> Frame("start", <<>>)]

\* The flush of an INSERT raises IntegrityError when the key is in the
\* committed table by now
Collides(table, key) == key \in DOMAIN table

\* save_documents_to_db up to session.commit(): the two queries
begin_save_documents(p) ==
    /\ result[p].at = "start"
    /\ result' = [result EXCEPT ![p] =
           Frame("save_documents",
                 [existing_doc |-> args.document.id \in DOMAIN notion_documents,
                  processing_record |->
                      args.document.id \in DOMAIN processing_records])]
    /\ UNCHANGED <<store, args>>

\* session.commit() of save_documents_to_db, or its rollback and raise
commit_save_documents(p) ==
    /\ result[p].at = "save_documents"
    /\ LET session == result[p].session
           id == args.document.id
           conflict ==
               \/ ~session.existing_doc /\ Collides(notion_documents, id)
               \/ ~session.processing_record /\ Collides(processing_records, id)
       IN  IF conflict
           THEN /\ result' = [result EXCEPT ![p] = Frame("raised", <<>>)]
                /\ UNCHANGED <<store, args>>
           ELSE /\ notion_documents' =
                      IF session.existing_doc
                      THEN [notion_documents EXCEPT ![id] =
                               update_existing_doc(@, args.document)]
                      ELSE Inserted(notion_documents,
                                    <<NotionDocumentDB(args.document)>>, "id")
                /\ processing_records' =
                      IF session.processing_record
                      THEN [processing_records EXCEPT ![id] = mark_extracted(@)]
                      ELSE Inserted(processing_records,
                                    <<ExtractedRecord(id)>>, "document_id")
                /\ result' = [result EXCEPT ![p] = Frame("extracted", <<>>)]
                /\ UNCHANGED <<document_classifications, weekly_summaries, args>>

\* run_classification up to session.commit(): the selection, the oracle
\* call and the two queries of save_classifications_to_db.  With nothing
\* selected the stage returns at once.
begin_save_classifications(p) ==
    /\ result[p].at = "extracted"
    /\ LET selected == get_unclassified_documents(notion_documents,
                                                  processing_records)
       IN  result' = [result EXCEPT ![p] =
               IF selected = {} THEN Frame("classified", <<>>)
               ELSE LET id == CHOOSE d \in selected : TRUE
                        c == classify_document(notion_documents[id],
                                               args.response).classification
                    IN  Frame("save_classifications",
                              [classification |-> c,
                               existing_classification |->
                                   first_row(document_classifications, id, 1),
                               processing_record |->
                                   id \in DOMAIN processing_records])]
    /\ UNCHANGED <<store, args>>

\* session.commit() of save_classifications_to_db, or its rollback and raise
commit_save_classifications(p) ==
    /\ result[p].at = "save_classifications"
    /\ LET session == result[p].session
           c == session.classification
           id == c.document_id
       IN  IF ~session.processing_record /\ Collides(processing_records, id)
           THEN /\ result' = [result EXCEPT ![p] = Frame("raised", <<>>)]
                /\ UNCHANGED <<store, args>>
           ELSE /\ document_classifications' =
                      IF session.existing_classification # 0
                      THEN [document_classifications EXCEPT
                               ![session.existing_classification] =
                                   update_existing_classification(@, c)]
                      ELSE Append(document_classifications,
                                  DocumentClassificationDB(c))
                /\ processing_records' =
                      IF session.processing_record
                      THEN [processing_records EXCEPT ![id] = mark_classified(@)]
                      ELSE Inserted(processing_records,
                                    <<ClassifiedRecord(id)>>, "document_id")
                /\ result' = [result EXCEPT ![p] = Frame("classified", <<>>)]
                /\ UNCHANGED <<notion_documents, weekly_summaries, args>>

\* run_weekly_summary up to session.commit(): the boundaries, the
\* summary generated from the committed tables and the query by week
begin_save_summary(p) ==
    /\ result[p].at = "classified"
    /\ LET week == get_week_boundaries(args.date, args.date)
           g == generate_summary(notion_documents, document_classifications,
                                 week.week_start, week.week_end, args.narrative)
       IN  result' = [result EXCEPT ![p] =
               Frame("save_summary",
                     [summary |-> g.summary,
                      existing_summary |->
                          first_summary(weekly_summaries, week.week_start,
                                        week.week_end, 1)])]
    /\ UNCHANGED <<store, args>>

\* session.commit() of save_summary_to_db: weekly_summaries has no unique
\* column, the flush cannot collide
commit_save_summary(p) ==
    /\ result[p].at = "save_summary"
    /\ LET session == result[p].session
       IN  weekly_summaries' =
               IF session.existing_summary # 0
               THEN [weekly_summaries EXCEPT ![session.existing_summary] =
                        update_existing_summary(@, session.summary)]
               ELSE Append(weekly_summaries, WeeklySummaryDB(session.summary))
    /\ result' = [result EXCEPT ![p] = Frame("returned", <<>>)]
    /\ UNCHANGED <<notion_documents, processing_records,
                   document_classifications, args>>

NextConcurrent ==
    \E p \in Invocations :
        \/ begin_save_documents(p)
        \/ commit_save_documents(p)
        \/ begin_save_classifications(p)
        \/ commit_save_classifications(p)
        \/ begin_save_summary(p)
        \/ commit_save_summary(p)

SpecConcurrent == InitConcurrent /\ [][NextConcurrent]_vars

\* C16: however the queries and commits of two full runs interleave, the
\* store holds at most one WeeklySummary per (week_start, week_end), at
\* most one Classification and one ProcessingRecord per document, and
\* neither run fails.
C16_InterleavedRunsStayUnique ==
    /\ \A i, j \in DOMAIN weekly_summaries :
          (/\ weekly_summaries[i].week_start = weekly_summaries[j].week_start
           /\ weekly_summaries[i].week_end = weekly_summaries[j].week_end)
              => i = j
    /\ \A id \in DocIds : Cardinality(rows_of(document_classifications, id)) <= 1
    /\ \A id \in DOMAIN processing_records :
          processing_records[id].document_id = id
    /\ \A p \in Invocations : ~result[p].raised

-----------------------------------------------------------------------------
(* pipeline.py: get_processing_stats between the stage steps:              *)
(* specification SpecProcessingStats                                       *)

\* session.query(ProcessingRecordDB).filter(status == ...).count()
count_with_status(db_recs, status) ==
    Cardinality({id \in DOMAIN db_recs : db_recs[id].status = status})

\* A get_processing_stats whose "classified" count filters on PENDING
get_processing_stats_filtering_pending(db_recs) ==
    [total_documents |-> Cardinality(DOMAIN db_recs),
     extracted |-> count_with_status(db_recs, EXTRACTED),
     classified |-> count_with_status(db_recs, PENDING),
     failed |-> count_with_status(db_recs, FAILED)]

\* The dict get_processing_stats returns
get_processing_stats(db_recs) ==
    [total_documents |-> Cardinality(DOMAIN db_recs),
     extracted |-> count_with_status(db_recs, EXTRACTED),
     classified |-> count_with_status(db_recs, CLASSIFIED),
     failed |-> count_with_status(db_recs, FAILED)]

\* A call of get_processing_stats when no full run is under way
get_processing_stats_call ==
    /\ Idle
    /\ result' = [op |-> "get_processing_stats", at |-> "returned",
                  raised |-> FALSE,
                  stats |-> get_processing_stats(processing_records)]
    /\ UNCHANGED <<store, args>>

NextProcessingStats ==
    \/ run_extraction_step
    \/ run_classification_step
    \/ run_summary_step
    \/ get_processing_stats_call

SpecProcessingStats == Init /\ [][NextProcessingStats]_vars

\* The stored ProcessingRecords that carry a given status
RecordsWith(status) ==
    {id \in DOMAIN processing_records : processing_records[id].status = status}

\* C17: get_processing_stats returns as total the number of stored
\* ProcessingRecords and as extracted, classified and failed the numbers of
\* records with that status; in every state the stages reach the total is
\* the sum of the three.
C17_StatsCountRecordsByStatus ==
    result.op = "get_processing_stats" =>
        /\ result.stats.total_documents = Cardinality(DOMAIN processing_records)
        /\ result.stats.extracted = Cardinality(RecordsWith(EXTRACTED))
        /\ result.stats.classified = Cardinality(RecordsWith(CLASSIFIED))
        /\ result.stats.failed = Cardinality(RecordsWith(FAILED))
        /\ result.stats.total_documents =
               result.stats.extracted + result.stats.classified
                   + result.stats.failed

\* Statistics taken with one record extracted and another classified
C17_StatsOverBothStatuses ==
    /\ result.op = "get_processing_stats"
    /\ result.stats.extracted >= 1
    /\ result.stats.classified >= 1

-----------------------------------------------------------------------------
(* extractor.py: extraction over listings with unreadable pages and        *)
(* failing queries: specification SpecExtract                              *)

\* The listing of the source: one page more than the limits asked for, so
\* that a second query is made; every page readable or not
ExtractListings ==
    {[i \in 1..(MaxDocs + 1) |-> [id |-> i, version |-> 1, readable |-> r[i]]] :
        r \in [1..(MaxDocs + 1) -> BOOLEAN]}

\* The calls: limit None, 0, 1 or 2, and the first or the second query
\* raising APIResponseError, or none
ExtractCalls ==
    [items : ExtractListings, limit : {NoLimit, 0, 1, 2}, fail_query : {0, 1, 2},
     fail_at : {0}]

\* extract_documents_from_database called on its own
extract_call ==
    \E run \in ExtractCalls :
        LET e == extract_documents_from_database(run.items, run.limit,
                                                 run.fail_query)
        IN  /\ args' = run
            /\ result' = [op |-> "extract_documents_from_database",
                          raised |-> e.raised, documents |-> e.documents]
            /\ UNCHANGED store

\* run_extraction on the same calls
run_extraction_call ==
    \E run \in ExtractCalls :
        /\ extraction(run)
        /\ args' = run

NextExtract ==
    \/ extract_call
    \/ run_extraction_call

SpecExtract == Init /\ [][NextExtract]_vars

\* The documents of the pages of a listing that can be read, in its order
Derivable(items) ==
    LET readable(page) == page.readable
        pages == SelectSeq(items, readable)
    IN  [i \in DOMAIN pages |-> NotionDocument(pages[i])]

\* A second listing query is made: the first answer was cut at the limit,
\* pages remain and fewer than limit documents came out of it
SecondQueryMade(run) ==
    /\ run.limit # NoLimit
    /\ run.limit < Len(run.items)
    /\ \E i \in 1..run.limit : ~run.items[i].readable

\* A listing query that is made raises
ListingFails(run) ==
    \/ run.fail_query = 1
    \/ run.fail_query = 2 /\ SecondQueryMade(run)

\* C18: a page that cannot be read never aborts the extraction, a listing
\* query that fails always does.  extract returns the documents of the
\* pages it read without error, in listing order (all of them without a
\* limit); when a listing query fails, on the first page or a later one,
\* extract raises and run_extraction leaves the store as it was.
C18_ItemFailuresSkipListingFailuresAbort ==
    [][/\ result'.op \in {"extract_documents_from_database", "run_extraction"}
          => (result'.raised <=> ListingFails(args'))
       /\ (result'.op = "extract_documents_from_database" /\ ~result'.raised)
          => /\ Len(result'.documents) <= Len(Derivable(args'.items))
             /\ result'.documents =
                    SubSeq(Derivable(args'.items), 1, Len(result'.documents))
             /\ args'.limit = NoLimit
                    => result'.documents = Derivable(args'.items)
       /\ (result'.op = "run_extraction" /\ ListingFails(args'))
          => store' = store]_vars

\* run_extraction raised on its second listing query, after the first
\* answer had given a document, over a store that holds documents
C18_SecondQueryFailedAfterDocument ==
    /\ result.op = "run_extraction"
    /\ result.raised
    /\ args.fail_query = 2
    /\ args.limit = 2
    /\ args.items[1].readable
    /\ notion_documents # <<>>

-----------------------------------------------------------------------------
(* Claim on the update branch of save_documents_to_db, under SpecSnapshot *)

\* C19: after a persist of a Document whose identity was already stored,
\* every stored field other than the identity (title, content, url,
\* created_time, last_edited_time, parent_database_id, properties) has the
\* value just persisted, and the identity is the same.
C19_UpdateOverwritesEveryField ==
    [][(result'.op = "run_extraction" /\ ~result'.raised)
          => LET e == extract_documents_from_database(args'.items, args'.limit, 0)
             IN  \A i \in DOMAIN e.documents :
                    LET document == e.documents[i]
                    IN  document.id \in DOMAIN notion_documents
                           => LET row == notion_documents'[document.id]
                              IN  /\ row.id = document.id
                                  /\ row.title = document.title
                                  /\ row.content = document.content
                                  /\ row.url = document.url
                                  /\ row.created_time = document.created_time
                                  /\ row.last_edited_time = document.last_edited_time
                                  /\ row.parent_database_id
                                         = document.parent_database_id
                                  /\ row.properties
                                         = json_dumps(document.properties)]_vars

-----------------------------------------------------------------------------
(* The persist operations over records that carry an error message:        *)
(* specification SpecFailedRecord                                          *)

\* A ProcessingRecordDB row in status FAILED with its error_message set,
\* as the schema allows and as a hand written to the table leaves it
FailedRecord(processing_record) ==
    [processing_record EXCEPT !.status = FAILED, !.error_message = "error"]

\* The store after an extraction of every page, with the records of some
\* documents marked failed
InitFailedRecord ==
    \E marked \in SUBSET DocIds :
        /\ marked # {}
        /\ notion_documents = SeededStore(0).notion_documents
        /\ processing_records =
               [id \in DOMAIN SeededStore(0).processing_records |->
                   IF id \in marked
                   THEN FailedRecord(SeededStore(0).processing_records[id])
                   ELSE SeededStore(0).processing_records[id]]
        /\ document_classifications = <<>>
        /\ weekly_summaries = <<>>
        /\ args = None
        /\ result = NoCall

SpecFailedRecord == InitFailedRecord /\ [][NextPersist]_vars

-----------------------------------------------------------------------------
(* classifier.py: one save_classifications_to_db over a store of extracted *)
(* documents: specification SpecUpsert                                     *)

InitUpsert ==
    \E classified \in 0..MaxDocs :
        /\ notion_documents = SeededStore(classified).notion_documents
        /\ processing_records = SeededStore(classified).processing_records
        /\ document_classifications =
               SeededStore(classified).document_classifications
        /\ weekly_summaries = <<>>
        /\ args = None
        /\ result = NoCall

\* One call of save_classifications_to_db; args keeps the batch
save_classifications_batch ==
    /\ result = NoCall
    /\ \E classifications \in PersistClassifications :
       \E fail_at \in {0, Len(classifications) + 1} :
          LET s == save_classifications_to_db(document_classifications,
                                              processing_records,
                                              classifications, fail_at, 1)
          IN  /\ document_classifications' = s.document_classifications
              /\ processing_records' = s.processing_records
              /\ args' = [classifications |-> classifications]
              /\ result' = Outcome("save_classifications_to_db", s.raised,
                                   IF s.raised THEN "persist" ELSE "none",
                                   0, {}, {})
              /\ UNCHANGED <<notion_documents, weekly_summaries>>

NextUpsert == save_classifications_batch

SpecUpsert == InitUpsert /\ [][NextUpsert]_vars

\* The last classification a batch holds for a document identity
LastFor(classifications, document_id) ==
    LET at == {i \in DOMAIN classifications :
                  classifications[i].document_id = document_id}
    IN  classifications[CHOOSE i \in at : \A j \in at : j <= i]

\* C21: after a successful classification persist the Classification the
\* store holds for every document identity of the batch has the batch's
\* field values, whatever was stored for it before, the document's
\* ProcessingRecord is CLASSIFIED with classified_at set, and the records
\* of the other documents are as they were.
C21_PersistUpsertsTheBatch ==
    [][(result'.op = "save_classifications_to_db" /\ ~result'.raised)
          => LET batch == args'.classifications
                 ids == {batch[i].document_id : i \in DOMAIN batch}
             IN  /\ \A id \in ids :
                       /\ rows_of(document_classifications', id) # {}
                       /\ \A r \in rows_of(document_classifications', id) :
                             document_classifications'[r] =
                                 DocumentClassificationDB(LastFor(batch, id))
                       /\ id \in DOMAIN processing_records'
                       /\ processing_records'[id].status = CLASSIFIED
                       /\ processing_records'[id].classified_at # None
                 /\ \A id \in DOMAIN processing_records \ ids :
                       /\ id \in DOMAIN processing_records'
                       /\ processing_records'[id] = processing_records[id]]_vars

-----------------------------------------------------------------------------
(* Claim on the empty selection, under SpecClassify *)

\* C22: when no ProcessingRecord is in status EXTRACTED the classification
\* run returns an empty list without raising, asks the oracle nothing and
\* leaves the documents, the classifications and the records as they were.
C22_NothingPendingIsNoOp ==
    [][(/\ result'.op = "run_classification"
        /\ \A id \in DOMAIN processing_records :
              processing_records[id].status # EXTRACTED)
          => /\ ~result'.raised
             /\ result'.returned = <<>>
             /\ args'.responses = <<>>
             /\ store' = store]_<<result, store>>

\* A run over a store whose documents are all classified already
C22_RunOverClassifiedStore ==
    /\ result.op = "run_classification"
    /\ notion_documents # <<>>
    /\ \A id \in DOMAIN notion_documents :
          /\ id \in DOMAIN processing_records
          /\ processing_records[id].status = CLASSIFIED
    /\ args.responses = <<>>

-----------------------------------------------------------------------------
(* Claim on the limit of an extraction, under SpecExtract *)

\* The first answer gave limit documents: its pages, limit of them, were
\* all read
LimitReachedOnFirstAnswer(run) ==
    /\ run.limit <= Len(run.items)
    /\ \A i \in 1..run.limit : run.items[i].readable

\* C23: with a limit n extract returns at most n documents and makes no
\* listing query once it has n of them; without a limit it follows the
\* cursor to the end of the listing and returns the document of every
\* page that could be read.
C23_LimitBoundsTheExtraction ==
    result.op = "extract_documents_from_database" =>
        /\ (args.limit # NoLimit /\ ~result.raised)
              => Len(result.documents) <= args.limit
        /\ (/\ args.limit # NoLimit
            /\ args.fail_query = 2
            /\ LimitReachedOnFirstAnswer(args))
              => ~result.raised
        /\ (args.limit = NoLimit /\ ~result.raised)
              => result.documents = Derivable(args.items)

-----------------------------------------------------------------------------
(* summarizer.py: get_week_boundaries on its own: specification SpecWeek *)

\* The reference dates: in two consecutive weeks, on every day of the
\* week, the first and the second instant of the day, noon, the last
\* whole second and the last instant
WeekDates ==
    {w * Week + day * Day + t :
        w \in 0..1, day \in 0..6,
        t \in {0, 1, Day \div 2, Day - TicksPerSecond, Day - 1}}

InitWeek ==
    /\ notion_documents = <<>>
    /\ processing_records = <<>>
    /\ document_classifications = <<>>
    /\ weekly_summaries = <<>>
    /\ args = [date |-> NoDate, clock |-> 0]
    /\ result = [op |-> "none", week_start |-> 0, week_end |-> 0]

\* get_week_boundaries(date), or get_week_boundaries() at a clock reading
get_week_boundaries_call ==
    \E call \in [date : WeekDates, clock : {0}]
                   \cup [date : {NoDate}, clock : WeekDates] :
        LET week == get_week_boundaries(call.date, call.clock)
        IN  /\ args' = call
            /\ result' = [op |-> "get_week_boundaries",
                          week_start |-> week.week_start,
                          week_end |-> week.week_end]
            /\ UNCHANGED store

NextWeek == get_week_boundaries_call

SpecWeek == InitWeek /\ [][NextWeek]_vars

\* The reference date of the call
ReferenceDate == IF args.date = NoDate THEN args.clock ELSE args.date

\* C24: for every reference date d the week_start returned is a Monday at
\* 00:00:00 with week_start <= d < week_start + 7 days, week_end is
\* week_start + 6 days 23:59:59, and the boundaries of any instant inside
\* the returned window are the same window.
C24_WeekBoundariesOfDate ==
    result.op = "get_week_boundaries" =>
        /\ result.week_start % Week = 0
        /\ result.week_start <= ReferenceDate
        /\ ReferenceDate < result.week_start + Week
        /\ result.week_end = result.week_start + 6 * Day
               + 23 * 3600 * TicksPerSecond + 59 * 60 * TicksPerSecond
               + 59 * TicksPerSecond
        /\ \A t \in WeekDates :
              (result.week_start <= t /\ t <= result.week_end)
                  => get_week_boundaries(t, 0) =
                         [week_start |-> result.week_start,
                          week_end |-> result.week_end]

\* The boundaries of a Sunday, 23:59:59, of the second week
C24_BoundariesOfSundayNight ==
    /\ result.op = "get_week_boundaries"
    /\ args.date = 2 * Week - TicksPerSecond
    /\ result.week_start = Week
    /\ result.week_end = args.date

-----------------------------------------------------------------------------
(* summarizer.py: get_weekly_documents after a classification persist:     *)
(* specification SpecCollect                                               *)

\* The windows asked for: week 0, week 1, and the two weeks together
CollectWindows ==
    {get_week_boundaries(Day + 1, 0), get_week_boundaries(Week + Day, 0),
     [week_start |-> 0,
      week_end |-> get_week_boundaries(Week + Day, 0).week_end]}

\* One call of get_weekly_documents on the store as it is
get_weekly_documents_call ==
    /\ result.op \in {"none", "save_classifications_to_db"}
    /\ \E window \in CollectWindows :
          result' = [op |-> "get_weekly_documents",
                     week_start |-> window.week_start,
                     week_end |-> window.week_end,
                     documents |->
                         get_weekly_documents(notion_documents,
                                              document_classifications,
                                              window.week_start, window.week_end)]
    /\ UNCHANGED <<store, args>>

NextCollect ==
    \/ save_classifications_batch
    \/ get_weekly_documents_call

SpecCollect == InitUpsert /\ [][NextCollect]_vars

\* The stored documents that have a Classification and were created in
\* the window of the call
Collectable ==
    {id \in DOMAIN notion_documents :
        /\ rows_of(document_classifications, id) # {}
        /\ result.week_start <= notion_documents[id].created_time
        /\ notion_documents[id].created_time <= result.week_end}

\* C25: get_weekly_documents returns one (Document, Classification) pair
\* for each stored Document that has a Classification and was created in
\* [week_start, week_end], none for any other Document, the most recently
\* created first.
C25_CollectsOnePairPerDocument ==
    result.op = "get_weekly_documents" =>
        /\ \A id \in Collectable :
              Cardinality({k \in DOMAIN result.documents :
                              result.documents[k].id = id}) = 1
        /\ \A k \in DOMAIN result.documents : result.documents[k].id \in Collectable
        /\ \A a, b \in DOMAIN result.documents :
              a < b => notion_documents[result.documents[a].id].created_time
                          >= notion_documents[result.documents[b].id].created_time

-----------------------------------------------------------------------------
(* Repeated classification runs without re-extraction: specification       *)
(* SpecRetry                                                               *)

\* What the oracle answers for a document in a run: three valid answers,
\* one that is no JSON, a failed call
RetryResponses ==
    {Answer(PROJECT, "feature_request", Number(90)),
     Answer(KNOWLEDGE, "tutorial", Number(70)),
     Answer(KNOWLEDGE, "reference", Number(60)),
     Reply("", NotJson, ""),
     ApiError}

\* The store when the runs start: every page extracted, the documents
\* 1..classified classified already
InitRetry ==
    \E classified \in {0, 1} :
        /\ notion_documents = SeededStore(classified).notion_documents
        /\ processing_records = SeededStore(classified).processing_records
        /\ document_classifications =
               SeededStore(classified).document_classifications
        /\ weekly_summaries = <<>>
        /\ args = [answers |-> <<>>, commit_raises |-> FALSE]
        /\ result = NoCall

\* The documents the next run selects
Selected == get_unclassified_documents(notion_documents, processing_records)

\* run_classification when the oracle answers answers[id] for the selected
\* document id and the commit raises or not: the tables it leaves, what
\* it was called with and its outcome.  returned: the ids whose
\* classification was committed.
classification_run(db_docs, db_cls, db_recs, answers, commit_raises) ==
    LET selected == get_unclassified_documents(db_docs, db_recs)
        order == CHOOSE o \in Orders(selected) : Ascending(o)
        documents == [i \in DOMAIN order |-> db_docs[order[i]]]
        responses == [i \in DOMAIN order |-> answers[order[i]]]
        batch == classify_documents_batch(documents, responses)
        s == save_classifications_to_db(
                 db_cls, db_recs, batch.classifications,
                 IF commit_raises THEN Len(batch.classifications) + 1 ELSE 0, 1)
    IN  IF selected = {}
        THEN [document_classifications |-> db_cls,
              processing_records |-> db_recs,
              args |-> [answers |-> <<>>, commit_raises |-> FALSE],
              result |-> Outcome("run_classification", FALSE, "none", 0, {}, {})]
        ELSE [document_classifications |-> s.document_classifications,
              processing_records |-> s.processing_records,
              args |-> [answers |-> answers, commit_raises |-> commit_raises],
              result |-> Outcome("run_classification", s.raised,
                                 IF s.raised THEN "persist" ELSE "none", 0,
                                 selected,
                                 IF s.raised THEN {}
                                 ELSE Ids(batch.classifications, "document_id"))]

\* One run_classification
run_classification_with(answers, commit_raises) ==
    \E run \in {classification_run(notion_documents, document_classifications,
                                   processing_records, answers, commit_raises)} :
        /\ document_classifications' = run.document_classifications
        /\ processing_records' = run.processing_records
        /\ args' = run.args
        /\ result' = run.result
        /\ UNCHANGED <<notion_documents, weekly_summaries>>

run_classification_again ==
    \E answers \in [Selected -> RetryResponses], commit_raises \in BOOLEAN :
        run_classification_with(answers, commit_raises)

\* A run that selects document id, gets a valid answer for it and
\* commits; args' holds the answers of the run
classified_in_run(id) ==
    /\ id \in Selected
    /\ ~args'.commit_raises
    /\ ~classify_document(notion_documents[id], args'.answers[id]).raised
    /\ run_classification_with(args'.answers, FALSE)

NextRetry == run_classification_again

\* The runs go on, and for every document the oracle eventually gives a
\* valid answer in a run that commits: weak fairness of
\* classified_in_run(id), which is enabled exactly while id is selected
SpecRetry ==
    /\ InitRetry
    /\ [][NextRetry]_vars
    /\ \A id \in DocIds :
          \/ []<>(id \notin Selected)
          \/ []<><<classified_in_run(id)>>_vars

\* The selected documents a run did not bring to CLASSIFIED
LeftPending(outcome) == outcome.selected \ outcome.returned

\* C26: a document whose classification failed in a run keeps status
\* EXTRACTED and the next run selects it again; with no extraction in
\* between and an oracle that eventually answers validly for every
\* document, the runs eventually bring every document to CLASSIFIED and
\* from then on nothing is pending.
C26_FailedAreRetriedUntilClassified ==
    /\ [][result'.op = "run_classification"
             => /\ \A id \in LeftPending(result') :
                      processing_records'[id].status = EXTRACTED
                /\ result.op = "run_classification"
                      => LeftPending(result) \subseteq result'.selected]_vars
    /\ <>[](/\ \A id \in DOMAIN notion_documents :
                  processing_records[id].status = CLASSIFIED
            /\ Selected = {})

\* A run classified one document and left another, whose answer was not
\* valid, in status EXTRACTED
C26_OneClassifiedOneLeft ==
    /\ result.op = "run_classification"
    /\ ~result.raised
    /\ result.returned # {}
    /\ \E id \in LeftPending(result) : processing_records[id].status = EXTRACTED

-----------------------------------------------------------------------------
(* Claim on the records the stage runs leave, under Spec *)

\* C27: in every state the stage runs reach, failed and rolled back
\* persists included, every stored Document has its one ProcessingRecord,
\* every record in status CLASSIFIED has a stored Classification and a
\* classification timestamp, and every record in status EXTRACTED has an
\* extraction timestamp.
C27_RecordsAgreeWithStore ==
    /\ \A id \in DOMAIN notion_documents :
          /\ id \in DOMAIN processing_records
          /\ processing_records[id].document_id = id
    /\ \A id \in DOMAIN processing_records :
          /\ processing_records[id].status = CLASSIFIED
                => /\ rows_of(document_classifications, id) # {}
                   /\ processing_records[id].classified_at # None
          /\ processing_records[id].status = EXTRACTED
                => processing_records[id].extracted_at # None

\* A classification run whose persist was rolled back, over a store with
\* a classified document and one still to classify
C27_RolledBackOverMixedStore ==
    /\ result.op = "run_classification"
    /\ result.raised
    /\ result.phase = "persist"
    /\ \E id \in DOMAIN processing_records :
          processing_records[id].status = CLASSIFIED
    /\ \E id \in DOMAIN processing_records :
          processing_records[id].status = EXTRACTED

-----------------------------------------------------------------------------
(* The stage steps over records in status FAILED or PENDING: specification *)
(* SpecUnselectable                                                        *)

\* The store after an extraction of every page, the records of some
\* documents set to FAILED or PENDING by hand (no code of the repository
\* writes either status)
InitUnselectable ==
    \E status \in [DocIds -> {EXTRACTED, FAILED, PENDING}] :
        /\ \E id \in DocIds : status[id] # EXTRACTED
        /\ notion_documents = SeededStore(0).notion_documents
        /\ processing_records =
               [id \in DOMAIN SeededStore(0).processing_records |->
                   [SeededStore(0).processing_records[id]
                       EXCEPT !.status = status[id]]]
        /\ document_classifications = <<>>
        /\ weekly_summaries = <<>>
        /\ args = None
        /\ result = NoCall

SpecUnselectable == InitUnselectable /\ [][NextFull]_vars

\* The step is the classification stage of a full run
ClassificationStep ==
    /\ result.op = "run_full_pipeline"
    /\ result.at = "extraction_done"

\* The step is an extraction stage that committed
ExtractionCommitted ==
    /\ Idle
    /\ result'.op = "run_full_pipeline"
    /\ result'.at = "extraction_done"

\* C28: a ProcessingRecord in status FAILED or PENDING is not selected for
\* classification and a classification run leaves it as it is; the only
\* stage step that changes it is an extraction of its document, which
\* sets it to EXTRACTED.
C28_FailedLeavesOnlyByExtraction ==
    [][\A id \in DOMAIN processing_records :
          processing_records[id].status \in {FAILED, PENDING}
              => /\ id \notin get_unclassified_documents(notion_documents,
                                                         processing_records)
                 /\ ClassificationStep
                       => processing_records'[id] = processing_records[id]
                 /\ processing_records'[id] # processing_records[id]
                       => /\ ExtractionCommitted
                          /\ processing_records'[id].status = EXTRACTED]_vars

\* A classification stage classified a document while the record of
\* another stayed FAILED
C28_ClassifiedBesideFailed ==
    /\ result.op = "run_full_pipeline"
    /\ result.at = "classification_done"
    /\ result.classified_count >= 1
    /\ \E id \in DOMAIN processing_records :
          processing_records[id].status = FAILED

-----------------------------------------------------------------------------
(* Claim on the windows as a partition of time, under SpecWeek *)

\* C29: every timestamp t, at the resolution the store keeps, lies in the
\* window [week_start, week_end] that get_week_boundaries gives for t and
\* in the window of no other week, so that the filter of
\* get_weekly_documents takes a document created at t for exactly one
\* week.
C29_WindowsPartitionTime ==
    result.op = "get_week_boundaries" =>
        /\ result.week_start <= ReferenceDate
        /\ ReferenceDate <= result.week_end
        /\ \A d \in WeekDates :
              LET week == get_week_boundaries(d, 0)
              IN  (week.week_start <= ReferenceDate
                      /\ ReferenceDate <= week.week_end)
                     => /\ week.week_start = result.week_start
                        /\ week.week_end = result.week_end

-----------------------------------------------------------------------------
(* extractor.py: one save_documents_to_db of a batch that may list an      *)
(* identity twice: specification SpecDuplicate                             *)

\* The batches: documents of either generation, an identity possibly
\* listed twice (a page the source returned on two listing pages)
DuplicateBatches ==
    SeqsUpTo({NotionDocument(page) : page \in {p \in SourceItems : p.readable}},
             MaxBatch)

\* The store before the call: some of the pages extracted earlier
InitDuplicate ==
    \E stored \in SUBSET DocIds :
        /\ notion_documents =
               [id \in stored |-> SeededStore(0).notion_documents[id]]
        /\ processing_records =
               [id \in stored |-> SeededStore(0).processing_records[id]]
        /\ document_classifications = <<>>
        /\ weekly_summaries = <<>>
        /\ args = [documents |-> <<>>, fail_at |-> 0]
        /\ result = NoCall

\* One call of save_documents_to_db, the commit raising of its own or
\* not; args keeps the batch
save_documents_batch ==
    /\ result = NoCall
    /\ \E documents \in DuplicateBatches :
       \E fail_at \in {0, Len(documents) + 1} :
          LET s == save_documents_to_db(notion_documents, processing_records,
                                        documents, fail_at)
          IN  /\ notion_documents' = s.notion_documents
              /\ processing_records' = s.processing_records
              /\ args' = [documents |-> documents, fail_at |-> fail_at]
              /\ result' = Outcome("save_documents_to_db", s.raised,
                                   IF s.raised THEN "persist" ELSE "none",
                                   0, {}, {})
              /\ UNCHANGED <<document_classifications, weekly_summaries>>

NextDuplicate == save_documents_batch

SpecDuplicate == InitDuplicate /\ [][NextDuplicate]_vars

\* The batch lists an identity more than once
ListsTwice(documents) ==
    \E i, j \in DOMAIN documents : i < j /\ documents[i].id = documents[j].id

\* C30: an extraction persist whose batch lists a document identity more
\* than once commits (the store failing in nothing else), and leaves for that identity one Document and one
\* ProcessingRecord, the Document with the title, content,
\* last_edited_time and properties of the last occurrence in the batch.
C30_DuplicateInBatchCommits ==
    (/\ result.op = "save_documents_to_db"
     /\ args.fail_at = 0
     /\ ListsTwice(args.documents))
        => /\ ~result.raised
           /\ \A i \in DOMAIN args.documents :
                 LET id == args.documents[i].id
                     last == LastFor([k \in DOMAIN args.documents |->
                                         [document_id |-> args.documents[k].id,
                                          document |-> args.documents[k]]],
                                     id).document
                 IN  /\ id \in DOMAIN notion_documents
                     /\ id \in DOMAIN processing_records
                     /\ notion_documents[id].title = last.title
                     /\ notion_documents[id].content = last.content
                     /\ notion_documents[id].last_edited_time
                            = last.last_edited_time
                     /\ notion_documents[id].properties
                            = json_dumps(last.properties)

=============================================================================
